---- MODULE Spec2Model ----
(***************************************************************************)
(* Project-WISE: the Next.js proxy gateway in front of the weather         *)
(* prediction backend, and the forecast normalisation it performs.         *)
(*                                                                         *)
(* One inbound request is handled at a time (the handlers share no state); *)
(* Deliver ends the invocation and makes room for the next request.        *)
(* A handler runs from its entry to its first await in one step            *)
(* (<Handler>_Receive), is suspended while its outbound fetch is pending,  *)
(* and runs to its response in a second step (<Handler>_Resume).  The      *)
(* environment settles the pending fetches: BackendResponds, FetchFails,   *)
(* Tick (time passes) and TimeoutFires (AbortSignal.timeout).              *)
(*                                                                         *)
(* The WeatherRiskCards component of the client is modelled by what it     *)
(* renders from its data prop (RenderCards).  The LocationAutocomplete     *)
(* component (auto) and the WeatherDashboard page (dash) are modelled with *)
(* their React state; an async handler of theirs runs to its await in one  *)
(* step and from the settled fetch to its end in another, and several      *)
(* requests may be in flight.  The alerts shown, the files downloaded and  *)
(* the error thrown out of an event handler are kept in dash.              *)
(*                                                                         *)
(* JavaScript numbers are modelled in fixed point, in thousandths (Milli). *)
(***************************************************************************)
EXTENDS Integers, Sequences, FiniteSets, TLC

VARIABLES
    pc,         \* "idle" | "awaiting" | "done": position of the handler
    handler,    \* which route handler serves the inbound request
    request,    \* the inbound request (JSON body text or query parameters)
    calls,      \* the outbound fetches issued for this request, in issue order
    clock,      \* seconds elapsed since the outbound fetches were issued
    responses,  \* the responses returned for this request
    escaped,    \* TRUE when an exception left the handler uncaught
    cards,      \* what the WeatherRiskCards component shows, and its data prop
    auto,       \* the LocationAutocomplete component's state and its requests
    dash        \* the WeatherDashboard page's state, its searches and its outputs

vars == <<pc, handler, request, calls, clock, responses, escaped, cards, auto, dash>>

----------------------------------------------------------------------------
(* Bounds of the model *)

\* longest forecast array a backend payload carries
MaxForecast == 3
\* seconds by which one Tick advances the clock
TickSec == 10
\* hourly requests of the fan-out (the code issues 24, hours 0 to 23)
FanOut == 3
\* suggestion requests one autocomplete issues
MaxQueries == 3
\* alerts the dashboard shows
MaxAlerts == 1
\* files the dashboard exports
MaxDownloads == 1

(* Program constants *)

\* AbortSignal.timeout(30000), in seconds
TimeoutSec == 30
\* fixed-point unit of the modelled numbers: 1.0 is Milli
Milli == 1000
\* 273.15 in thousandths
KelvinOffset == 273150

----------------------------------------------------------------------------
(* JSON / JavaScript values *)

Undefined == [t |-> "undefined"]
JNull == [t |-> "null"]
NaN == [t |-> "nan"]
Num(n) == [t |-> "num", v |-> n]
Str(s) == [t |-> "str", v |-> s]
Arr(s) == [t |-> "arr", v |-> s]
Obj(f) == [t |-> "obj", v |-> f]
Bool(b) == [t |-> "bool", v |-> b]
EmptyFields == [k \in {} |-> JNull]

\* property access o.k on a value that is not null or undefined
Get(o, k) == IF o.t = "obj" /\ k \in DOMAIN o.v THEN o.v[k] ELSE Undefined

\* null and undefined: a property access on them throws a TypeError
Nullish(x) == x.t \in {"null", "undefined"}

\* JavaScript truthiness, as used by !x and x || y
Truthy(x) ==
    CASE x.t = "undefined" -> FALSE
      [] x.t = "null" -> FALSE
      [] x.t = "nan" -> FALSE
      [] x.t = "num" -> x.v # 0
      [] x.t = "str" -> x.v # ""
      [] x.t = "bool" -> x.v
      [] OTHER -> TRUE

\* x || y
Or(x, y) == IF Truthy(x) THEN x ELSE y

\* String(x) and template interpolation, for the values the model uses
\* (numbers are whole here)
JsString(x) ==
    CASE x.t = "str" -> x.v
      [] x.t = "num" -> ToString(x.v \div Milli)
      [] x.t = "null" -> "null"
      [] x.t = "undefined" -> "undefined"
      [] OTHER -> "[object Object]"

\* Number(x) || 0 for numbers, null and undefined
NumberOrZero(x) == IF x.t = "num" THEN x.v ELSE 0

\* Math.round on a fixed-point number: floor(x + 0.5)
MathRound(x) == ((x + (Milli \div 2)) \div Milli) * Milli

\* one key of an object literal; JSON serialisation drops undefined values
JsonField(k, x) == IF x = Undefined THEN EmptyFields ELSE (k :> x)

(* Text of an HTTP body: either it parses as JSON to `value`, or it does not *)
JsonText(x) == [parses |-> TRUE, value |-> x, raw |-> ""]
Unparsable(raw) == [parses |-> FALSE, value |-> JNull, raw |-> raw]

(* Thrown errors: name, message, whether `instanceof Error`, and cause.code *)
Error(name, message) ==
    [name |-> name, message |-> message, isError |-> TRUE, causeCode |-> ""]
SyntaxError == Error("SyntaxError", "Unexpected token in JSON")
TypeErrorNullRead == Error("TypeError", "Cannot read properties of null")
NoError == [name |-> "", message |-> "", isError |-> FALSE, causeCode |-> ""]

\* Completion of a piece of code: it returned a value or threw an error
Returned(x) == [threw |-> FALSE, value |-> x, error |-> NoError]
Threw(e) == [threw |-> TRUE, value |-> Undefined, error |-> e]
\* try { r } catch (error) { Catch(error) }
TryCatch(r, Catch(_)) == IF r.threw THEN Catch(r.error) ELSE r
\* the code suspends in `await` on the outbound fetches cs
Await(cs) == Returned([await |-> cs])
IsAwait(r) == ~r.threw /\ "await" \in DOMAIN r.value
\* JSON.parse(text) / response.json()
JsonParse(text) == IF text.parses THEN Returned(text.value) ELSE Threw(SyntaxError)

(* HTTP *)
HttpReply(status, text) == [status |-> status, text |-> text]
NoReply == HttpReply(0, Unparsable(""))
\* response.ok
Ok(reply) == reply.status \in 200..299

\* NextResponse.json(body, {status})
JsonResponse(status, body) == [status |-> status, body |-> body]
ErrorBody(message) == Obj([error |-> message])

\* response.text() kept as a value (the `details` of an error body)
TextValue(text) == [t |-> "text", v |-> text]

\* searchParams.get(k): the parameter's string, or null
SearchParam(query, k) == IF k \in DOMAIN query.v THEN query.v[k] ELSE JNull

\* fetch(url, {signal}): a pending outbound call
Fetch(to, params, signal) ==
    [to |-> to, params |-> params, signal |-> signal,
     state |-> "pending", reply |-> NoReply, error |-> NoError]

----------------------------------------------------------------------------
(* Forecast normalisation: POST /api/weather, src/app/api/weather/route.ts *)

\* x > 100 for a number, null or undefined x
GreaterThan100(x) == x.t = "num" /\ x.v > 100 * Milli

\* single-forecast branch: const tempC = fc.predicted_temp_c
TempSingle(fc) == Get(fc, "predicted_temp_c")

\* series branch: tempC = fc.predicted_temp_c > 100 ? fc.predicted_temp_c - 273.15 : ...
TempSeries(fc) ==
    LET t == Get(fc, "predicted_temp_c")
    IN  IF GreaterThan100(t) THEN Num(t.v - KelvinOffset) ELSE t

\* MmToChance with the bands closed at their upper ends
MmToChanceInclusive(x) ==
    LET mm == NumberOrZero(x)
    IN  IF mm <= 0 THEN Num(0)
        ELSE IF mm <= 1 * Milli THEN Num(20 * Milli)
        ELSE IF mm <= 5 * Milli THEN Num(50 * Milli)
        ELSE IF mm <= 15 * Milli THEN Num(80 * Milli)
        ELSE Num(95 * Milli)

\* the mm fallback heuristic of both branches
MmToChance(x) ==
    LET mm == NumberOrZero(x)
    IN  IF mm <= 0 THEN Num(0)
        ELSE IF mm < 1 * Milli THEN Num(20 * Milli)
        ELSE IF mm < 5 * Milli THEN Num(50 * Milli)
        ELSE IF mm < 15 * Milli THEN Num(80 * Milli)
        ELSE Num(95 * Milli)

\* single-forecast branch: let chanceValue = ...
ChanceValueSingle(fc) ==
    IF Get(fc, "predicted_chance_of_rain") # Undefined
        THEN Get(fc, "predicted_chance_of_rain")
    ELSE IF Get(fc, "predicted_precip_chance") # Undefined
        THEN Get(fc, "predicted_precip_chance")
    ELSE IF Get(fc, "predicted_precip_probability") # Undefined
        THEN Get(fc, "predicted_precip_probability")
    ELSE IF Get(fc, "predicted_precip_prob") # Undefined
        THEN Get(fc, "predicted_precip_prob")
    ELSE IF Get(fc, "predicted_precip_mm") # Undefined
        THEN MmToChance(Get(fc, "predicted_precip_mm"))
    ELSE Undefined

\* single-forecast branch: let chanceOfRain = ...
ChanceOfRainSingle(chanceValue) ==
    IF chanceValue = Undefined \/ chanceValue = JNull THEN Num(0)
    ELSE IF chanceValue.v <= 1 * Milli THEN Num(MathRound(chanceValue.v * 100))
    ELSE Num(MathRound(chanceValue.v))

\* ChanceValueSeries with predicted_precip_prob looked at before
\* predicted_precip_chance
ChanceValueSeriesReordered(fc) ==
    IF Get(fc, "predicted_chance_of_rain") # Undefined
        THEN Get(fc, "predicted_chance_of_rain")
    ELSE IF Get(fc, "predicted_precip_prob") # Undefined
        THEN Get(fc, "predicted_precip_prob")
    ELSE IF Get(fc, "predicted_precip_chance") # Undefined
        THEN Get(fc, "predicted_precip_chance")
    ELSE IF Get(fc, "predicted_precip_probability") # Undefined
        THEN Get(fc, "predicted_precip_probability")
    ELSE IF Get(fc, "predicted_precip_mm") # Undefined
        THEN MmToChance(Get(fc, "predicted_precip_mm"))
    ELSE Undefined

\* series branch: let chanceValue = ...
ChanceValueSeries(fc) ==
    IF Get(fc, "predicted_chance_of_rain") # Undefined
        THEN Get(fc, "predicted_chance_of_rain")
    ELSE IF Get(fc, "predicted_precip_chance") # Undefined
        THEN Get(fc, "predicted_precip_chance")
    ELSE IF Get(fc, "predicted_precip_probability") # Undefined
        THEN Get(fc, "predicted_precip_probability")
    ELSE IF Get(fc, "predicted_precip_prob") # Undefined
        THEN Get(fc, "predicted_precip_prob")
    ELSE IF Get(fc, "predicted_precip_mm") # Undefined
        THEN MmToChance(Get(fc, "predicted_precip_mm"))
    ELSE Undefined

\* ChanceOfRainSeries with the fraction test written < 1
ChanceOfRainSeriesStrict(chanceValue) ==
    IF chanceValue = Undefined \/ chanceValue = JNull THEN Num(0)
    ELSE IF chanceValue.v < 1 * Milli THEN Num(MathRound(chanceValue.v * 100))
    ELSE Num(MathRound(chanceValue.v))

\* series branch: let chanceOfRain = ...
ChanceOfRainSeries(chanceValue) ==
    IF chanceValue = Undefined \/ chanceValue = JNull THEN Num(0)
    ELSE IF chanceValue.v <= 1 * Milli THEN Num(MathRound(chanceValue.v * 100))
    ELSE Num(MathRound(chanceValue.v))

\* predictions: { wind_speed_ms, chance_of_rain, temperature_c, humidity_percent }
Predictions(fc, tempC, chanceOfRain) ==
    Obj([wind_speed_ms |-> Or(Get(fc, "predicted_wind_speed"), Num(0)),
         chance_of_rain |-> chanceOfRain,
         temperature_c |-> Or(tempC, Num(0)),
         humidity_percent |-> Or(Get(fc, "predicted_humidity"), Num(0))])

UnknownCategory ==
    Obj([category |-> Str("Unknown"), severity |-> Num(0), safe |-> Bool(TRUE)])

\* the assessment synthesised when the entry carries none
DefaultAssessment ==
    Obj([wind |-> UnknownCategory,
         precipitation |-> UnknownCategory,
         temperature |-> UnknownCategory,
         humidity |-> UnknownCategory,
         overall_risk |-> Num(0),
         safe_for_outdoors |-> Bool(TRUE),
         recommendation |-> Str("No data available")])

\* Assessment with the backend's assessment discarded
AssessmentSynthesized(fc) == DefaultAssessment

\* fc.assessment || { ... }
Assessment(fc) == Or(Get(fc, "assessment"), DefaultAssessment)

\* value of a decimal digit character
Digit(c) ==
    CASE c = "0" -> 0 [] c = "1" -> 1 [] c = "2" -> 2 [] c = "3" -> 3
      [] c = "4" -> 4 [] c = "5" -> 5 [] c = "6" -> 6 [] c = "7" -> 7
      [] c = "8" -> 8 [] c = "9" -> 9

\* new Date(datetime).getHours() for an absent datetime (NaN, serialised as
\* null) and for an ISO local date-time "YYYY-MM-DDTHH:MM:SS"
GetHours(datetime) ==
    IF datetime.t = "str"
        THEN Num((10 * Digit(SubSeq(datetime.v, 12, 12))
                     + Digit(SubSeq(datetime.v, 13, 13))) * Milli)
        ELSE JNull

\* the single-forecast branch, from fc = data.forecast[0] to its return
NormalizeSingle(data, fc) ==
    IF Nullish(fc) THEN Threw(TypeErrorNullRead)
    ELSE Returned(JsonResponse(200, Obj(
            JsonField("location", Get(data, "location"))
            @@ JsonField("datetime", Get(fc, "datetime"))
            @@ JsonField("predictions",
                   Predictions(fc, TempSingle(fc),
                               ChanceOfRainSingle(ChanceValueSingle(fc))))
            @@ JsonField("assessment", Assessment(fc)))))

\* the callback of data.forecast.map in the series branch
NormalizeSeriesEntry(fc) ==
    Obj(JsonField("datetime", Get(fc, "datetime"))
        @@ JsonField("hour", GetHours(Get(fc, "datetime")))
        @@ JsonField("predictions",
               Predictions(fc, TempSeries(fc),
                           ChanceOfRainSeries(ChanceValueSeries(fc))))
        @@ JsonField("assessment", Assessment(fc)))

\* MapForecast walking the array from its end
MapForecastReversed(forecast) ==
    [i \in 1..Len(forecast) |-> NormalizeSeriesEntry(forecast[Len(forecast) + 1 - i])]

\* data.forecast.map(callback)
MapForecast(forecast) == [i \in 1..Len(forecast) |-> NormalizeSeriesEntry(forecast[i])]

\* the series branch
NormalizeSeries(data) ==
    LET forecast == Get(data, "forecast").v
    IN  IF \E i \in 1..Len(forecast) : Nullish(forecast[i])
            THEN Threw(TypeErrorNullRead)
        ELSE Returned(JsonResponse(200, Obj(
                JsonField("location", Get(data, "location"))
                @@ JsonField("forecasts", Arr(MapForecast(forecast))))))

----------------------------------------------------------------------------
(* POST /api/weather: src/app/api/weather/route.ts *)

\* POST_Entry with the validation rejecting only when both are missing
POST_EntryRejectsWhenBothMissing(text) ==
    LET parsed == JsonParse(text)
    IN  IF parsed.threw THEN parsed
        ELSE IF Nullish(parsed.value) THEN Threw(TypeErrorNullRead)
        ELSE
            LET body == parsed.value
                city == Get(body, "city")
                target_date == Get(body, "target_date")
                target_hour == Get(body, "target_hour")
            IN  IF ~Truthy(city) /\ ~Truthy(target_date)
                    THEN Returned(JsonResponse(400, ErrorBody(Str(
                        "Missing required parameters: city and target_date are required"))))
                ELSE Await(<<Fetch("backend",
                        [city |-> JsString(city),
                         target_date |-> JsString(target_date),
                         target_hour |-> JsString(Or(target_hour, Str("all")))],
                        TRUE)>>)

\* from the entry of the try block to `await fetch(...)`
POST_Entry(text) ==
    LET parsed == JsonParse(text)
    IN  IF parsed.threw THEN parsed
        ELSE IF Nullish(parsed.value) THEN Threw(TypeErrorNullRead)
        ELSE
            LET body == parsed.value
                city == Get(body, "city")
                target_date == Get(body, "target_date")
                target_hour == Get(body, "target_hour")
            IN  IF ~Truthy(city) \/ ~Truthy(target_date)
                    THEN Returned(JsonResponse(400, ErrorBody(Str(
                        "Missing required parameters: city and target_date are required"))))
                ELSE Await(<<Fetch("backend",
                        [city |-> JsString(city),
                         target_date |-> JsString(target_date),
                         target_hour |-> JsString(Or(target_hour, Str("all")))],
                        TRUE)>>)

\* if (!response.ok) { ... }
POST_NotOk(response) ==
    LET errorData == IF response.text.parses
                        THEN response.text.value
                        ELSE Obj([message |-> Str(response.text.raw)])
    IN  IF Nullish(errorData) THEN Threw(TypeErrorNullRead)
        ELSE Returned(JsonResponse(response.status, ErrorBody(
                Or(Get(errorData, "message"),
                   Or(Get(errorData, "error"),
                      Str("Backend returned " \o ToString(response.status)))))))

\* POST_Payload taking the single-forecast branch for arrays of at most one
\* entry (data.forecast[0] of an empty array is undefined)
POST_PayloadShortIsSingle(response) ==
    LET parsed == JsonParse(response.text)
        data == parsed.value
    IN  IF parsed.threw THEN parsed
        ELSE IF Nullish(data) THEN Threw(TypeErrorNullRead)
        ELSE IF Get(data, "status") = Str("loading")
            THEN Returned(JsonResponse(503, ErrorBody(Str(
                    "Models are still loading. Please try again in a moment."))))
        ELSE IF Get(data, "status") = Str("error")
            THEN Returned(JsonResponse(500, ErrorBody(
                    Or(Get(data, "message"), Str("Backend error occurred")))))
        ELSE IF /\ Get(data, "status") = Str("success")
                /\ Truthy(Get(data, "forecast"))
                /\ Get(data, "forecast").t = "arr"
            THEN IF Len(Get(data, "forecast").v) = 0
                    THEN NormalizeSingle(data, Undefined)
                 ELSE IF Len(Get(data, "forecast").v) = 1
                    THEN NormalizeSingle(data, Get(data, "forecast").v[1])
                    ELSE NormalizeSeries(data)
        ELSE Returned(JsonResponse(200, data))

\* from const data = JSON.parse(responseText) to the fallback return
POST_Payload(response) ==
    LET parsed == JsonParse(response.text)
        data == parsed.value
    IN  IF parsed.threw THEN parsed
        ELSE IF Nullish(data) THEN Threw(TypeErrorNullRead)
        ELSE IF Get(data, "status") = Str("loading")
            THEN Returned(JsonResponse(503, ErrorBody(Str(
                    "Models are still loading. Please try again in a moment."))))
        ELSE IF Get(data, "status") = Str("error")
            THEN Returned(JsonResponse(500, ErrorBody(
                    Or(Get(data, "message"), Str("Backend error occurred")))))
        ELSE IF /\ Get(data, "status") = Str("success")
                /\ Truthy(Get(data, "forecast"))
                /\ Get(data, "forecast").t = "arr"
            THEN IF Len(Get(data, "forecast").v) = 1
                    THEN NormalizeSingle(data, Get(data, "forecast").v[1])
                    ELSE NormalizeSeries(data)
        ELSE Returned(JsonResponse(200, data))

\* the try block after the fetch has settled
POST_AfterFetch(call) ==
    IF call.state = "rejected" THEN Threw(call.error)
    ELSE IF ~Ok(call.reply) THEN POST_NotOk(call.reply)
    ELSE POST_Payload(call.reply)

\* POST_Catch rethrowing what it caught
POST_CatchRethrows(error) == Threw(error)

\* catch (error) { ... }
POST_Catch(error) ==
    IF error.isError /\ error.name = "AbortError"
        THEN Returned(JsonResponse(504, ErrorBody(Str(
                "Request timeout - backend took too long to respond"))))
        ELSE Returned(JsonResponse(500, ErrorBody(Str(
                IF error.isError THEN error.message
                                 ELSE "Failed to fetch weather data"))))

\* export async function POST(request), up to its first suspension
POST_Start(text) == TryCatch(POST_Entry(text), POST_Catch)

\* export async function POST(request), from the settled fetch to its end
POST_Finish(call) == TryCatch(POST_AfterFetch(call), POST_Catch)

----------------------------------------------------------------------------
(* GET /api/weather?lat&lon&target_date&target_hour: src/unnamed/part_001 *)

\* WeatherGET_Entry with the sentinel sent whatever hour came in
WeatherGET_EntryAllHours(query) ==
    Await(<<Fetch("backend",
            [lat |-> SearchParam(query, "lat").v,
             lon |-> SearchParam(query, "lon").v,
             target_date |-> SearchParam(query, "target_date").v,
             target_hour |-> "all"],
            TRUE)>>)

WeatherGET_Entry(query) ==
    Await(<<Fetch("backend",
            [lat |-> SearchParam(query, "lat").v,
             lon |-> SearchParam(query, "lon").v,
             target_date |-> SearchParam(query, "target_date").v,
             target_hour |-> Or(SearchParam(query, "target_hour"), Str("all")).v],
            TRUE)>>)

WeatherGET_AfterFetch(call) ==
    LET response == call.reply
        \* await response.json().catch(() => ({ error: "Unknown error" }))
        errorData == IF response.text.parses
                        THEN response.text.value
                        ELSE Obj([error |-> Str("Unknown error")])
        parsed == JsonParse(response.text)
    IN  IF call.state = "rejected" THEN Threw(call.error)
        ELSE IF ~Ok(response)
            THEN IF Nullish(errorData) THEN Threw(TypeErrorNullRead)
                 ELSE Returned(JsonResponse(response.status, ErrorBody(
                        Or(Get(errorData, "message"),
                           Str("Backend returned " \o ToString(response.status))))))
        ELSE IF parsed.threw THEN parsed
        ELSE Returned(JsonResponse(200, parsed.value))

WeatherGET_Catch(error) ==
    IF error.isError
        THEN IF error.name = "AbortError"
                THEN Returned(JsonResponse(504, ErrorBody(Str(
                        "Request timeout - backend took too long to respond"))))
                ELSE Returned(JsonResponse(500, ErrorBody(Str(
                        "Failed to fetch weather data: " \o error.message))))
        ELSE Returned(JsonResponse(500, ErrorBody(Str(
                "Failed to fetch weather data from backend"))))

\* export async function GET(request), up to its first suspension
WeatherGET_Start(query) ==
    IF \/ ~Truthy(SearchParam(query, "lat"))
       \/ ~Truthy(SearchParam(query, "lon"))
       \/ ~Truthy(SearchParam(query, "target_date"))
        THEN Returned(JsonResponse(400, ErrorBody(Str(
            "Missing required parameters: lat, lon, and target_date are required"))))
        ELSE TryCatch(WeatherGET_Entry(query), WeatherGET_Catch)

\* export async function GET(request), from the settled fetch to its end
WeatherGET_Finish(call) == TryCatch(WeatherGET_AfterFetch(call), WeatherGET_Catch)

----------------------------------------------------------------------------
(* GET /api/weather?lat&lon, first handler of src/unnamed/part_000 *)

LegacyGET_Entry(query) ==
    IF ~Truthy(SearchParam(query, "lat")) \/ ~Truthy(SearchParam(query, "lon"))
        THEN Returned(JsonResponse(400, ErrorBody(Str("Missing latitude or longitude"))))
        ELSE Await(<<Fetch("weather-api",
                [lat |-> SearchParam(query, "lat").v,
                 lon |-> SearchParam(query, "lon").v],
                FALSE)>>)

\* if (!apiRes.ok) throw ...; const data = await apiRes.json(); return ...
PassThrough(call) ==
    LET parsed == JsonParse(call.reply.text)
    IN  IF call.state = "rejected" THEN Threw(call.error)
        ELSE IF ~Ok(call.reply)
            THEN Threw(Error("Error",
                    "Backend API returned " \o ToString(call.reply.status)))
        ELSE IF parsed.threw THEN parsed
        ELSE Returned(JsonResponse(200, parsed.value))

\* catch (error) { ... } of both handlers of part_000
LegacyGET_Catch(error) ==
    Returned(JsonResponse(500, ErrorBody(Str("Failed to fetch weather data"))))

LegacyGET_Start(query) == TryCatch(LegacyGET_Entry(query), LegacyGET_Catch)

LegacyGET_Finish(call) == TryCatch(PassThrough(call), LegacyGET_Catch)

----------------------------------------------------------------------------
(* GET /api/weather?lat&lon&time, second handler of src/unnamed/part_000 *)

\* Array.from({ length: 24 }, (_, hour) => fetch(...&hour=${hour}))
HourlyFetches(lat, lon) ==
    [i \in 1..FanOut |->
        Fetch("backend", [lat |-> lat, lon |-> lon, hour |-> ToString(i - 1)], FALSE)]

\* HourlyGET_Entry with the batch of hourly fetches issued for any time
HourlyGET_EntryAlwaysBatch(query) ==
    LET lat == SearchParam(query, "lat")
        lon == SearchParam(query, "lon")
    IN  IF ~Truthy(lat) \/ ~Truthy(lon)
            THEN Returned(JsonResponse(400, ErrorBody(Str("Missing latitude or longitude"))))
            ELSE Await(HourlyFetches(lat.v, lon.v))

HourlyGET_Entry(query) ==
    LET lat == SearchParam(query, "lat")
        lon == SearchParam(query, "lon")
        time == SearchParam(query, "time")
    IN  IF ~Truthy(lat) \/ ~Truthy(lon)
            THEN Returned(JsonResponse(400, ErrorBody(Str("Missing latitude or longitude"))))
        ELSE IF time = Str("all") THEN Await(HourlyFetches(lat.v, lon.v))
        ELSE IF Truthy(time)
            THEN Await(<<Fetch("backend",
                    [lat |-> lat.v, lon |-> lon.v, hour |-> time.v], FALSE)>>)
        ELSE Await(<<Fetch("backend", [lat |-> lat.v, lon |-> lon.v], FALSE)>>)

\* fetch(...).then((res) => res.json()) has rejected
HourlyFailed(call) ==
    \/ call.state = "rejected"
    \/ call.state = "fulfilled" /\ ~call.reply.text.parses

\* await Promise.all(promises); return NextResponse.json(allData)
HourlyAll(cs) ==
    IF \E i \in 1..Len(cs) : HourlyFailed(cs[i])
        THEN LET i == CHOOSE j \in 1..Len(cs) : HourlyFailed(cs[j])
             IN  IF cs[i].state = "rejected" THEN Threw(cs[i].error)
                                             ELSE Threw(SyntaxError)
        ELSE Returned(JsonResponse(200,
                Arr([i \in 1..Len(cs) |-> cs[i].reply.text.value])))

HourlyGET_AfterFetch(query, cs) ==
    IF SearchParam(query, "time") = Str("all") THEN HourlyAll(cs)
                                               ELSE PassThrough(cs[1])

HourlyGET_Start(query) == TryCatch(HourlyGET_Entry(query), LegacyGET_Catch)

HourlyGET_Finish(query, cs) ==
    TryCatch(HourlyGET_AfterFetch(query, cs), LegacyGET_Catch)

\* the handler can run on: the awaited promise has settled
HourlyGET_Settled(query, cs) ==
    IF SearchParam(query, "time") = Str("all")
        THEN \/ \E i \in 1..Len(cs) : HourlyFailed(cs[i])
             \/ \A i \in 1..Len(cs) : cs[i].state = "fulfilled"
        ELSE cs[1].state # "pending"

----------------------------------------------------------------------------
(* GET /api/location?q: first handler of src/app/api/location/route.ts *)

LocationGET_AfterFetch(call) ==
    LET parsed == JsonParse(call.reply.text)
    IN  IF call.state = "rejected" THEN Threw(call.error)
        ELSE IF ~Ok(call.reply)
            THEN Returned(JsonResponse(call.reply.status,
                    ErrorBody(Str("Nominatim request failed"))))
        ELSE IF parsed.threw THEN parsed
        ELSE Returned(JsonResponse(200, parsed.value))

LocationGET_Catch(error) ==
    Returned(JsonResponse(500, ErrorBody(Str("Failed to fetch location"))))

LocationGET_Start(query) ==
    IF ~Truthy(SearchParam(query, "q"))
        THEN Returned(JsonResponse(400, ErrorBody(Str("Missing query"))))
        ELSE TryCatch(Await(<<Fetch("nominatim",
                [q |-> SearchParam(query, "q").v, format |-> "json",
                 countrycodes |-> "ph", limit |-> "10", addressdetails |-> "1"],
                FALSE)>>), LocationGET_Catch)

LocationGET_Finish(call) == TryCatch(LocationGET_AfterFetch(call), LocationGET_Catch)

----------------------------------------------------------------------------
(* GET ?lat&lon with coordinate validation: second handler of              *)
(* src/app/api/location/route.ts                                           *)

IsDigit(c) == c \in {"0", "1", "2", "3", "4", "5", "6", "7", "8", "9"}

\* index after the run of digits of s that starts at i
RECURSIVE DigitsEnd(_, _)
DigitsEnd(s, i) ==
    IF i <= Len(s) /\ IsDigit(SubSeq(s, i, i)) THEN DigitsEnd(s, i + 1) ELSE i

\* value of the digits s[i..j-1]
RECURSIVE DigitsValue(_, _, _)
DigitsValue(s, i, j) ==
    IF j <= i THEN 0
    ELSE 10 * DigitsValue(s, i, j - 1) + Digit(SubSeq(s, j - 1, j - 1))

\* parseFloat(s): optional sign, digits, optional fraction (up to three
\* decimals are kept); the longest numeric prefix counts, NaN without one
ParseFloat(s) ==
    LET signed == Len(s) >= 1 /\ SubSeq(s, 1, 1) \in {"-", "+"}
        start == IF signed THEN 2 ELSE 1
        intEnd == DigitsEnd(s, start)
        hasPoint == intEnd <= Len(s) /\ SubSeq(s, intEnd, intEnd) = "."
        fracEnd == IF hasPoint THEN DigitsEnd(s, intEnd + 1) ELSE intEnd
        fracLen == IF hasPoint THEN fracEnd - (intEnd + 1) ELSE 0
        kept == IF fracLen > 3 THEN 3 ELSE fracLen
        scale == CASE kept = 0 -> 1000 [] kept = 1 -> 100 [] kept = 2 -> 10 [] OTHER -> 1
        magnitude == DigitsValue(s, start, intEnd) * Milli
                        + DigitsValue(s, intEnd + 1, intEnd + 1 + kept) * scale
    IN  IF intEnd = start /\ fracLen = 0 THEN NaN
        ELSE IF Len(s) >= 1 /\ SubSeq(s, 1, 1) = "-" THEN Num(0 - magnitude)
        ELSE Num(magnitude)

CoordGET_Entry(query) ==
    LET lat == SearchParam(query, "lat")
        lon == SearchParam(query, "lon")
        latitude == ParseFloat(lat.v)
        longitude == ParseFloat(lon.v)
    IN  IF ~Truthy(lat) \/ ~Truthy(lon)
            THEN Returned(JsonResponse(400, ErrorBody(Str(
                    "Missing required parameters: lat and lon"))))
        ELSE IF latitude = NaN \/ longitude = NaN
            THEN Returned(JsonResponse(400, ErrorBody(Str(
                    "Invalid coordinates: lat and lon must be numbers"))))
        ELSE IF latitude.v < (0 - 90) * Milli \/ latitude.v > 90 * Milli
            THEN Returned(JsonResponse(400, ErrorBody(Str(
                    "Invalid latitude: must be between -90 and 90"))))
        ELSE IF longitude.v < (0 - 180) * Milli \/ longitude.v > 180 * Milli
            THEN Returned(JsonResponse(400, ErrorBody(Str(
                    "Invalid longitude: must be between -180 and 180"))))
        ELSE Await(<<Fetch("backend", [lat |-> latitude, lon |-> longitude], TRUE)>>)

CoordGET_AfterFetch(call) ==
    LET parsed == JsonParse(call.reply.text)
    IN  IF call.state = "rejected" THEN Threw(call.error)
        ELSE IF ~Ok(call.reply)
            THEN Returned(JsonResponse(call.reply.status,
                    Obj([error |-> Str("Failed to fetch weather data from backend"),
                         details |-> TextValue(call.reply.text),
                         status |-> Num(call.reply.status * Milli)])))
        ELSE IF parsed.threw THEN parsed
        ELSE Returned(JsonResponse(200, parsed.value))

CoordGET_Catch(error) ==
    IF error.name = "AbortError"
        THEN Returned(JsonResponse(504, ErrorBody(Str(
                "Request timeout: Backend server took too long to respond"))))
    ELSE IF error.causeCode = "ECONNREFUSED"
        THEN Returned(JsonResponse(503, ErrorBody(Str(
                "Backend server is not reachable. Please check if the Python service is running."))))
    ELSE Returned(JsonResponse(500,
            Obj([error |-> Str("Internal server error"),
                 message |-> Str(error.message)])))

CoordGET_Start(query) == TryCatch(CoordGET_Entry(query), CoordGET_Catch)

CoordGET_Finish(call) == TryCatch(CoordGET_AfterFetch(call), CoordGET_Catch)

----------------------------------------------------------------------------
(* Inputs: the inbound requests and the backend replies the model draws *)

\* an optional key of an object: absent, or one of the values
Optional(k, values) == {EmptyFields} \cup {k :> x : x \in values}

\* bodies of POST /api/weather; the client's handleSearch sends lat, lon,
\* target_date and target_hour
PostBodies ==
    {Unparsable("not json"), JsonText(JNull)}
    \cup {JsonText(Obj(c @@ l @@ d @@ h)) :
            c \in Optional("city", {Str(""), Str("Manila")}),
            l \in {EmptyFields, [lat |-> Num(14600), lon |-> Num(121000)]},
            d \in Optional("target_date", {Str("2025-06-01")}),
            h \in Optional("target_hour", {Str("all"), Str("0"), Str("23"), Str("")})}

WeatherQueries ==
    {Obj(a @@ o @@ d @@ h) :
        a \in Optional("lat", {Str("14.6"), Str("abc"), Str("91")}),
        o \in Optional("lon", {Str("121.0"), Str("180.5")}),
        d \in Optional("target_date", {Str("2025-06-01")}),
        h \in Optional("target_hour", {Str("all"), Str("0"), Str("23"), Str("")})}

LegacyQueries ==
    {Obj(a @@ o) : a \in Optional("lat", {Str("14.6")}),
                   o \in Optional("lon", {Str("121.0")})}

HourlyQueries ==
    {Obj(a @@ o @@ h) :
        a \in Optional("lat", {Str("14.6")}),
        o \in Optional("lon", {Str("121.0")}),
        h \in Optional("time", {Str("all"), Str("13")})}

LocationQueries == {Obj(q) : q \in Optional("q", {Str(""), Str("Manila")})}

CoordQueries ==
    {Obj(a @@ o) :
        a \in Optional("lat", {Str("14.6"), Str("-90"), Str("90"), Str("90.001"),
                               Str("-91"), Str("abc"), Str("12abc")}),
        o \in Optional("lon", {Str("121.0"), Str("-180"), Str("180"),
                               Str("180.5"), Str("x")})}

\* a backend forecast entry with every field the gateway reads
FullEntry ==
    Obj([datetime |-> Str("2025-06-01T00:00:00"),
         predicted_wind_speed |-> Num(5200),
         predicted_chance_of_rain |-> Num(300),
         predicted_temp_c |-> Num(300000),
         predicted_humidity |-> Num(80000),
         assessment |-> Obj([overall_risk |-> Num(400),
                             safe_for_outdoors |-> Bool(TRUE),
                             recommendation |-> Str("Bring an umbrella")])])

\* a backend forecast entry that omits most fields
SparseEntry ==
    Obj([datetime |-> Str("2025-06-01T13:00:00"),
         predicted_temp_c |-> Num(25000),
         predicted_precip_mm |-> Num(2000)])

SmallEntries == {FullEntry, SparseEntry, JNull}

\* all sequences over S of length 0..n
RECURSIVE SeqsUpTo(_, _)
SeqsUpTo(S, n) ==
    IF n = 0 THEN {<<>>}
    ELSE LET shorter == SeqsUpTo(S, n - 1)
         IN  shorter \cup {Append(q, x) : q \in {r \in shorter : Len(r) = n - 1}, x \in S}

BackendLocation == Obj([lat |-> Num(14600), lon |-> Num(121000)])

\* payloads that carry a status and perhaps a message, and no forecast
StatusPayloads ==
    {Obj(st @@ m) :
        st \in Optional("status", {Str("loading"), Str("error"), Str("warming")}),
        m \in Optional("message", {Str("model failed")})}
    \cup {Obj([error |-> Str("not found")])}

\* payloads with status "success"
SuccessPayloads ==
    {Obj([status |-> Str("success"), location |-> BackendLocation] @@ f) :
        f \in Optional("forecast",
                {Str("none")} \cup {Arr(q) : q \in SeqsUpTo(SmallEntries, MaxForecast)})}

BackendTexts ==
    {Unparsable(""), Unparsable("Bad Gateway"), JsonText(JNull)}
    \cup {JsonText(x) : x \in StatusPayloads \cup SuccessPayloads}

BackendStatuses == {200, 404, 500, 502, 503}

BackendReplies == {HttpReply(st, text) : st \in BackendStatuses, text \in BackendTexts}

\* the replies drawn for the handlers that pass the payload through
PassThroughReplies ==
    {HttpReply(st, text) :
        st \in BackendStatuses,
        text \in {Unparsable("Bad Gateway"), JsonText(JNull),
                  JsonText(Obj([status |-> Str("loading")])),
                  JsonText(Obj([status |-> Str("error"), message |-> Str("model failed")])),
                  JsonText(Obj([status |-> Str("success"), location |-> BackendLocation,
                                forecast |-> Arr(<<FullEntry>>)]))}}

\* the replies drawn for one hourly request of the fan-out
HourlyReplies ==
    {HttpReply(200, JsonText(Obj([status |-> Str("success"), location |-> BackendLocation,
                                  forecast |-> Arr(<<SparseEntry>>)]))),
     HttpReply(500, JsonText(Obj([status |-> Str("error"), message |-> Str("model failed")]))),
     HttpReply(502, Unparsable("Bad Gateway"))}

RepliesFor(h, query) ==
    IF h = "POST" THEN BackendReplies
    ELSE IF h = "HourlyGET" /\ SearchParam(query, "time") = Str("all") THEN HourlyReplies
    ELSE PassThroughReplies

\* what a fetch aborted by AbortSignal.timeout rejects with: the signal's
\* reason, a DOMException named TimeoutError; fetch implementations that do
\* not forward the reason reject with a DOMException named AbortError
AbortRejections ==
    {Error("TimeoutError", "The operation was aborted due to timeout"),
     Error("AbortError", "This operation was aborted")}

\* what a fetch that cannot reach the server rejects with
NetworkRejections ==
    {[name |-> "TypeError", message |-> "fetch failed", isError |-> TRUE, causeCode |-> c] :
        c \in {"ECONNREFUSED", "UND_ERR_HEADERS_TIMEOUT"}}

----------------------------------------------------------------------------
(* components/weather-risk-cards.tsx: the risk cards of one forecast *)

\* getSeverityColor with the band edges in the lower band
getSeverityColorInclusive(severity) ==
    IF severity.v <= 300 THEN [label |-> "Low Risk", color |-> "green"]
    ELSE IF severity.v <= 700 THEN [label |-> "Medium Risk", color |-> "yellow"]
    ELSE [label |-> "High Risk", color |-> "red"]

\* getSeverityColor: 0.3 and 0.7 in thousandths; color is the colour of the
\* badge's classes
getSeverityColor(severity) ==
    IF severity.v < 300 THEN [label |-> "Low Risk", color |-> "green"]
    ELSE IF severity.v < 700 THEN [label |-> "Medium Risk", color |-> "yellow"]
    ELSE [label |-> "High Risk", color |-> "red"]

getRainSeverity(chanceOfRain) ==
    IF chanceOfRain.v < 30 * Milli THEN Num(0)
    ELSE IF chanceOfRain.v < 60 * Milli THEN Num(300)
    ELSE IF chanceOfRain.v < 80 * Milli THEN Num(600)
    ELSE Num(900)

\* getRainCategory with the edge of "Likely" away from getRainSeverity's
getRainCategoryShifted(chanceOfRain) ==
    IF chanceOfRain.v < 30 * Milli THEN "Low Chance"
    ELSE IF chanceOfRain.v <= 60 * Milli THEN "Possible"
    ELSE IF chanceOfRain.v < 80 * Milli THEN "Likely"
    ELSE "Very Likely"

getRainCategory(chanceOfRain) ==
    IF chanceOfRain.v < 30 * Milli THEN "Low Chance"
    ELSE IF chanceOfRain.v < 60 * Milli THEN "Possible"
    ELSE IF chanceOfRain.v < 80 * Milli THEN "Likely"
    ELSE "Very Likely"

\* the card of one assessment category: its name and its severity badge
CategoryCard(category) ==
    [category |-> Or(Get(category, "category"), Str("Unknown")).v,
     badge |-> getSeverityColor(Or(Get(category, "severity"), Num(0)))]

\* nothing rendered yet
NoCards == [shown |-> FALSE]

\* WeatherRiskCards({ data }): what the component renders
WeatherRiskCards(data) ==
    LET assessment == Or(Get(data, "assessment"), Obj(EmptyFields))
        predictions == Or(Get(data, "predictions"), Obj(EmptyFields))
        chanceOfRain == Or(Get(predictions, "chance_of_rain"), Num(0))
        rainSeverity == getRainSeverity(chanceOfRain)
        rainCategory == getRainCategory(chanceOfRain)
    IN  IF ~Truthy(assessment) \/ ~Truthy(predictions)
            THEN [shown |-> TRUE, data |-> data, text |-> "No weather data available"]
            ELSE [shown |-> TRUE, data |-> data,
                  overall |-> getSeverityColor(Or(Get(assessment, "overall_risk"), Num(0))),
                  wind |-> CategoryCard(Get(assessment, "wind")),
                  rain |-> [category |-> rainCategory,
                            chance |-> chanceOfRain,
                            severity |-> rainSeverity,
                            badge |-> getSeverityColor(rainSeverity)],
                  temperature |-> CategoryCard(Get(assessment, "temperature")),
                  humidity |-> CategoryCard(Get(assessment, "humidity"))]

----------------------------------------------------------------------------
(* unnamed/part_002: LocationAutocomplete (the version that queries
   /api/location) *)

\* an entry of the geocoder's result list
NominatimResult(display, address, lat, lon) ==
    Obj([display_name |-> Str(display), lat |-> Str(lat), lon |-> Str(lon),
         address |-> Obj(address)])

Manila ==
    NominatimResult("Manila, Metro Manila, Philippines",
        [city |-> Str("Manila"), state |-> Str("Metro Manila")],
        "14.599", "120.984")

Makati ==
    NominatimResult("Makati, Metro Manila, Philippines",
        [municipality |-> Str("Makati")],
        "14.55", "121.03")

Cebu ==
    NominatimResult("Cebu, Central Visayas, Philippines",
        [town |-> Str("Cebu"), province |-> Str("Cebu Province")],
        "10.3", "123.9")

\* what the geocoder finds for a query
Geocode(query) ==
    CASE query = "ma" -> <<Manila, Makati>>
      [] query = "ce" -> <<Cebu>>
      [] OTHER -> <<>>

\* the PhilippineLocation built from one result
ToLocation(result) ==
    LET address == Get(result, "address")
        cityName == Or(Or(Or(Get(address, "city"), Get(address, "town")),
                          Get(address, "municipality")),
                       Str("Unknown Location"))
        province == Or(Or(Get(address, "province"), Get(address, "state")),
                       Str("Philippines"))
    IN  Obj([name |-> cityName,
             province |-> province,
             lat |-> ParseFloat(JsString(Get(result, "lat"))),
             lon |-> ParseFloat(JsString(Get(result, "lon"))),
             display_name |-> Get(result, "display_name")])

\* a settled fetch as the browser code sees it
Replied(reply) == [state |-> "replied", reply |-> reply, error |-> NoError]
Rejected(error) == [state |-> "rejected", reply |-> NoReply, error |-> error]
FailedToFetch == Error("TypeError", "Failed to fetch")

\* the state of a freshly mounted autocomplete; the effect has armed the
\* debounce timer for the empty query
AutoInit ==
    [open |-> FALSE, searchQuery |-> "", suggestions |-> <<>>,
     loading |-> FALSE, debounceTimeout |-> <<"">>, requests |-> <<>>]

\* setSearchQuery(query) and the effect on [searchQuery]: a changed query
\* clears the pending timer and arms a new one
SetSearchQuery(a, query) ==
    IF query = a.searchQuery THEN a
    ELSE [a EXCEPT !.searchQuery = query, !.debounceTimeout = <<query>>]

\* fetchSuggestions(query) up to its await
fetchSuggestions_Start(a, query) ==
    IF query = "" \/ Len(query) < 2
        THEN [a EXCEPT !.suggestions = <<>>]
    ELSE [a EXCEPT !.loading = TRUE,
                   !.requests = Append(@, [query |-> query, state |-> "pending"])]

\* the try block of fetchSuggestions after the await
fetchSuggestions_AfterFetch(outcome) ==
    LET data == JsonParse(outcome.reply.text)
    IN  IF outcome.state = "rejected" THEN Threw(outcome.error)
        ELSE IF ~Ok(outcome.reply)
            THEN Threw(Error("Error", "Failed to fetch suggestions"))
        ELSE IF data.threw THEN data
        ELSE IF Nullish(data.value) THEN Threw(TypeErrorNullRead)
        ELSE IF data.value.t # "arr"
            THEN Threw(Error("TypeError", "data.map is not a function"))
        ELSE IF \E i \in DOMAIN data.value.v : Nullish(Get(data.value.v[i], "address"))
            THEN Threw(TypeErrorNullRead)
        ELSE Returned([i \in DOMAIN data.value.v |-> ToLocation(data.value.v[i])])

fetchSuggestions_Catch(error) == Returned(<<>>)

\* request i of fetchSuggestions runs from its await to the end
fetchSuggestions_Finish(a, i, outcome) ==
    LET r == TryCatch(fetchSuggestions_AfterFetch(outcome), fetchSuggestions_Catch)
    IN  [a EXCEPT !.suggestions = r.value,
                  !.loading = FALSE,
                  !.requests[i].state = "done"]

handleSelect(a) ==
    SetSearchQuery([a EXCEPT !.suggestions = <<>>, !.open = FALSE], "")

handleClear(a) == SetSearchQuery([a EXCEPT !.suggestions = <<>>], "")

----------------------------------------------------------------------------
(* app/page.tsx: WeatherDashboard *)

\* the state of a freshly mounted dashboard, with the alerts shown, the
\* files downloaded and the error last thrown out of an event handler
DashInit ==
    [selectedLocation |-> JNull, date |-> Undefined, time |-> "all",
     loading |-> FALSE, weatherData |-> JNull, searches |-> <<>>,
     alerts |-> <<>>, downloads |-> <<>>, uncaught |-> NoError]

\* a calendar day
Day(year, month, day) == [t |-> "date", year |-> year, month |-> month, day |-> day]

\* a number padded with a zero to two digits
TwoDigits(n) == IF n < 10 THEN "0" \o ToString(n) ELSE ToString(n)

\* format(date, "yyyy-MM-dd"); it throws a RangeError on a missing date
FormatDate(date) ==
    IF date.t # "date" THEN Threw(Error("RangeError", "Invalid time value"))
    ELSE Returned(ToString(date.year) \o "-" \o TwoDigits(date.month)
                    \o "-" \o TwoDigits(date.day))

\* seq without its i-th element
RemoveAt(seq, i) == SubSeq(seq, 1, i - 1) \o SubSeq(seq, i + 1, Len(seq))

\* handleSearch up to its await, sending the request twice
handleSearch_StartTwice(d) ==
    LET search == [selectedLocation |-> d.selectedLocation,
                   body |-> Obj([lat |-> Get(d.selectedLocation, "lat"),
                                 lon |-> Get(d.selectedLocation, "lon"),
                                 target_date |-> Str(FormatDate(d.date).value),
                                 target_hour |-> Str(d.time)])]
    IN  IF ~Truthy(d.selectedLocation) \/ ~Truthy(d.date) THEN d
        ELSE [d EXCEPT !.loading = TRUE,
                       !.searches = Append(Append(@, search), search)]

\* handleSearch up to its await
handleSearch_Start(d) ==
    IF ~Truthy(d.selectedLocation) \/ ~Truthy(d.date) THEN d
    ELSE [d EXCEPT
            !.loading = TRUE,
            !.searches = Append(@,
                [selectedLocation |-> d.selectedLocation,
                 body |-> Obj([lat |-> Get(d.selectedLocation, "lat"),
                               lon |-> Get(d.selectedLocation, "lon"),
                               target_date |-> Str(FormatDate(d.date).value),
                               target_hour |-> Str(d.time)])])]

transformForecastData(backendData) ==
    LET kelvin == Get(backendData, "predicted_temp_c")
    IN  Obj(("predicted_temp_c" :>
                (IF kelvin.t = "num" THEN Num(kelvin.v - KelvinOffset) ELSE NaN))
            @@ (IF backendData.t = "obj" THEN backendData.v ELSE EmptyFields))

\* {...data, location: {...data.location, name}}
Enriched(data, selectedLocation) ==
    LET location == Get(data, "location")
        name == JsString(Get(selectedLocation, "name")) \o ", "
                    \o JsString(Get(selectedLocation, "province"))
    IN  Obj(("location" :>
                Obj(("name" :> Str(name))
                    @@ (IF location.t = "obj" THEN location.v ELSE EmptyFields)))
            @@ data.v)

\* the try block of handleSearch without the test of data.error
handleSearch_AfterFetchIgnoresError(search, outcome) ==
    LET parsed == JsonParse(outcome.reply.text)
        data == parsed.value
    IN  IF outcome.state = "rejected" THEN Threw(outcome.error)
        ELSE IF parsed.threw THEN parsed
        ELSE IF Nullish(data) THEN Threw(TypeErrorNullRead)
        ELSE IF ~Ok(outcome.reply)
            THEN Threw(Error("Error",
                    JsString(Or(Get(data, "error"),
                                Str("Failed to fetch weather data")))))
        ELSE Returned(Enriched(data, search.selectedLocation))

\* the try block of handleSearch after the await: the value handed to
\* setWeatherData, or the error thrown
handleSearch_AfterFetch(search, outcome) ==
    LET parsed == JsonParse(outcome.reply.text)
        data == parsed.value
        forecast == Get(data, "forecast")
        transformed ==
            IF forecast.t = "arr"
                THEN Obj(("forecast" :>
                            Arr([i \in DOMAIN forecast.v |->
                                    transformForecastData(forecast.v[i])]))
                         @@ data.v)
            ELSE data
    IN  IF outcome.state = "rejected" THEN Threw(outcome.error)
        ELSE IF parsed.threw THEN parsed
        ELSE IF Nullish(data) THEN Threw(TypeErrorNullRead)
        ELSE IF ~Ok(outcome.reply)
            THEN Threw(Error("Error",
                    JsString(Or(Get(data, "error"),
                                Str("Failed to fetch weather data")))))
        ELSE IF forecast.t = "arr" /\ \E i \in DOMAIN forecast.v : Nullish(forecast.v[i])
            THEN Threw(TypeErrorNullRead)
        ELSE IF Truthy(Get(data, "error"))
            THEN Threw(Error("Error", JsString(Get(data, "error"))))
        ELSE Returned(Enriched(transformed, search.selectedLocation))

\* the catch block of handleSearch: what alert() is called with
handleSearch_Catch(error) ==
    IF error.isError THEN error.message ELSE "Failed to fetch weather data"

\* search i of handleSearch runs from its await to the end
handleSearch_Finish(d, i, outcome) ==
    LET r == handleSearch_AfterFetch(d.searches[i], outcome)
    IN  [d EXCEPT
            !.weatherData = IF r.threw THEN @ ELSE r.value,
            !.alerts = IF r.threw THEN Append(@, handleSearch_Catch(r.error)) ELSE @,
            !.loading = FALSE,
            !.searches = RemoveAt(@, i)]

\* JSON.stringify(x): undefined members are dropped, NaN becomes null
RECURSIVE JsonStringify(_)
JsonStringify(x) ==
    CASE x.t = "nan" -> JNull
      [] x.t = "undefined" -> JNull
      [] x.t = "arr" -> Arr([i \in DOMAIN x.v |-> JsonStringify(x.v[i])])
      [] x.t = "obj" ->
            Obj([k \in {f \in DOMAIN x.v : x.v[f] # Undefined} |->
                    JsonStringify(x.v[k])])
      [] OTHER -> x

\* the name of the exported file
ExportName(selectedLocation, dateStr, time) ==
    "weather-insights-" \o JsString(Get(selectedLocation, "name")) \o "-"
        \o dateStr \o "-"
        \o (IF time = "all" THEN "all-day" ELSE time \o "h") \o ".json"

handleExport(d) ==
    LET dateStr == FormatDate(d.date)
    IN  IF ~Truthy(d.weatherData) \/ ~Truthy(d.selectedLocation) THEN d
        ELSE IF dateStr.threw THEN [d EXCEPT !.uncaught = dateStr.error]
        ELSE [d EXCEPT !.downloads = Append(@,
                [download |-> ExportName(d.selectedLocation, dateStr.value, d.time),
                 content |-> JsonText(JsonStringify(d.weatherData))])]

----------------------------------------------------------------------------
(* The state machine *)

Init ==
    /\ pc = "idle"
    /\ handler = "none"
    /\ request = JNull
    /\ calls = <<>>
    /\ clock = 0
    /\ responses = <<>>
    /\ escaped = FALSE
    /\ cards = NoCards
    /\ auto = AutoInit
    /\ dash = DashInit

\* a handler h is invoked with req and runs to completion r of its first part
Begin(h, req, r) ==
    /\ pc = "idle"
    /\ handler' = h
    /\ request' = req
    /\ clock' = 0
    /\ escaped' = r.threw
    /\ calls' = IF IsAwait(r) THEN r.value.await ELSE <<>>
    /\ pc' = IF IsAwait(r) THEN "awaiting" ELSE "done"
    /\ responses' = IF r.threw \/ IsAwait(r) THEN <<>> ELSE <<r.value>>
    /\ UNCHANGED <<cards, auto, dash>>

\* the suspended handler runs to completion r
End(r) ==
    /\ pc = "awaiting"
    /\ pc' = "done"
    /\ escaped' = r.threw
    /\ responses' = IF r.threw THEN responses ELSE Append(responses, r.value)
    /\ UNCHANGED <<handler, request, calls, clock, cards, auto, dash>>

\* the invocation is over: the response has gone out (or the exception has
\* reached the framework), and the next request can come in
Deliver ==
    /\ pc = "done"
    /\ pc' = "idle"
    /\ handler' = "none"
    /\ request' = JNull
    /\ calls' = <<>>
    /\ clock' = 0
    /\ responses' = <<>>
    /\ escaped' = FALSE
    /\ UNCHANGED <<cards, auto, dash>>

\* the promise the handler awaits has settled
Settled ==
    IF handler = "HourlyGET" THEN HourlyGET_Settled(request, calls)
                             ELSE calls[1].state # "pending"

POST_Receive(text) == Begin("POST", text, POST_Start(text))

POST_Resume ==
    /\ handler = "POST" /\ pc = "awaiting" /\ Settled
    /\ End(POST_Finish(calls[1]))

WeatherGET_Receive(query) == Begin("WeatherGET", query, WeatherGET_Start(query))

WeatherGET_Resume ==
    /\ handler = "WeatherGET" /\ pc = "awaiting" /\ Settled
    /\ End(WeatherGET_Finish(calls[1]))

LegacyGET_Receive(query) == Begin("LegacyGET", query, LegacyGET_Start(query))

LegacyGET_Resume ==
    /\ handler = "LegacyGET" /\ pc = "awaiting" /\ Settled
    /\ End(LegacyGET_Finish(calls[1]))

HourlyGET_Receive(query) == Begin("HourlyGET", query, HourlyGET_Start(query))

HourlyGET_Resume ==
    /\ handler = "HourlyGET" /\ pc = "awaiting" /\ Settled
    /\ End(HourlyGET_Finish(request, calls))

LocationGET_Receive(query) == Begin("LocationGET", query, LocationGET_Start(query))

LocationGET_Resume ==
    /\ handler = "LocationGET" /\ pc = "awaiting" /\ Settled
    /\ End(LocationGET_Finish(calls[1]))

CoordGET_Receive(query) == Begin("CoordGET", query, CoordGET_Start(query))

CoordGET_Resume ==
    /\ handler = "CoordGET" /\ pc = "awaiting" /\ Settled
    /\ End(CoordGET_Finish(calls[1]))

\* the timer of AbortSignal.timeout is due for the pending fetch i
TimerDue(i) == calls[i].state = "pending" /\ calls[i].signal /\ clock >= TimeoutSec

\* the server answers the pending fetch i
BackendResponds(i, reply) ==
    /\ pc = "awaiting"
    /\ calls[i].state = "pending" /\ ~TimerDue(i)
    /\ calls' = [calls EXCEPT ![i].state = "fulfilled", ![i].reply = reply]
    /\ UNCHANGED <<pc, handler, request, clock, responses, escaped, cards, auto, dash>>

\* the pending fetch i fails at the network level
FetchFails(i, error) ==
    /\ pc = "awaiting"
    /\ calls[i].state = "pending" /\ ~TimerDue(i)
    /\ calls' = [calls EXCEPT ![i].state = "rejected", ![i].error = error]
    /\ UNCHANGED <<pc, handler, request, clock, responses, escaped, cards, auto, dash>>

\* AbortSignal.timeout(30000) aborts the pending fetch i
TimeoutFires(i, error) ==
    /\ pc = "awaiting"
    /\ TimerDue(i)
    /\ calls' = [calls EXCEPT ![i].state = "rejected", ![i].error = error]
    /\ UNCHANGED <<pc, handler, request, clock, responses, escaped, cards, auto, dash>>

\* time passes while the handler is suspended and no timer is due
Tick ==
    /\ pc = "awaiting" /\ ~Settled
    /\ \A i \in 1..Len(calls) : ~TimerDue(i)
    /\ clock < TimeoutSec + TickSec
    /\ clock' = clock + TickSec
    /\ UNCHANGED <<pc, handler, request, calls, responses, escaped, cards, auto, dash>>

\* the fetches that have not settled
Pending == {i \in 1..Len(calls) : pc = "awaiting" /\ calls[i].state = "pending"}

Environment ==
    \/ \E i \in Pending : \E reply \in RepliesFor(handler, request) :
            BackendResponds(i, reply)
    \/ \E i \in Pending : \E error \in NetworkRejections : FetchFails(i, error)
    \/ \E i \in Pending : \E error \in AbortRejections : TimeoutFires(i, error)
    \/ Tick

Next ==
    \/ \E text \in PostBodies : POST_Receive(text)
    \/ POST_Resume
    \/ \E query \in WeatherQueries : WeatherGET_Receive(query)
    \/ WeatherGET_Resume
    \/ \E query \in LegacyQueries : LegacyGET_Receive(query)
    \/ LegacyGET_Resume
    \/ \E query \in HourlyQueries : HourlyGET_Receive(query)
    \/ HourlyGET_Resume
    \/ \E query \in LocationQueries : LocationGET_Receive(query)
    \/ LocationGET_Resume
    \/ \E query \in CoordQueries : CoordGET_Receive(query)
    \/ CoordGET_Resume
    \/ Environment
    \/ Deliver

Spec == Init /\ [][Next]_vars

----------------------------------------------------------------------------
(* The normaliser on its own: one valid POST request, answered with HTTP   *)
(* 200 and a success payload drawn from a wide set of forecast entries     *)

RainCombinations ==
    {a @@ b @@ c @@ d @@ e :
        a \in Optional("predicted_chance_of_rain", {Num(300), JNull}),
        b \in Optional("predicted_precip_chance", {Num(45000), JNull}),
        c \in Optional("predicted_precip_probability", {Num(555), JNull}),
        d \in Optional("predicted_precip_prob", {Num(80500), JNull}),
        e \in Optional("predicted_precip_mm", {Num(2000), JNull})}

RainValues ==
    {Num(0 - 500), Num(0), Num(4), Num(5), Num(250), Num(994), Num(995), Num(1000),
     Num(1001), Num(1499), Num(1500), Num(45000), Num(99500), Num(150000)}

ExplicitRainFields ==
    {"predicted_chance_of_rain", "predicted_precip_chance",
     "predicted_precip_probability", "predicted_precip_prob"}

MmValues ==
    {Num(0 - 1000), Num(0), Num(500), Num(999), Num(1000), Num(4999), Num(5000),
     Num(14999), Num(15000), Num(20000)}

TempValues ==
    {JNull, Num(0 - 5000), Num(0), Num(25000), Num(100000), Num(100001),
     Num(273150), Num(300000)}

WindCombinations ==
    {w @@ uv :
        w \in Optional("predicted_wind_speed", {Num(0), Num(5200), Num(0 - 1000)}),
        uv \in {EmptyFields, [predicted_wind_u |-> Num(3000), predicted_wind_v |-> Num(4000)]}}

HumidityValues == {Num(0 - 5000), Num(0), Num(80000), Num(120000)}

AssessmentValues == {JNull, Get(FullEntry, "assessment")}

\* the forecast entries the normaliser is run on
RichEntries ==
    {Obj(dt @@ f) :
        dt \in Optional("datetime", {Str("2025-06-01T07:00:00")}),
        f \in RainCombinations
              \cup {k :> x : k \in ExplicitRainFields, x \in RainValues}
              \cup Optional("predicted_precip_mm", MmValues)
              \cup Optional("predicted_temp_c", TempValues)
              \cup WindCombinations
              \cup Optional("predicted_humidity", HumidityValues)
              \cup Optional("assessment", AssessmentValues)}

\* the other entries of a forecast array around a rich entry
Filler(j) == IF j % 2 = 1 THEN FullEntry ELSE SparseEntry

\* forecast arrays: every short array of the small entries, and every rich
\* entry at every position of an array of 1..MaxForecast entries
RichForecasts ==
    SeqsUpTo(SmallEntries, MaxForecast)
    \cup {[j \in 1..n |-> IF j = k THEN e ELSE Filler(j)] :
            e \in RichEntries, n \in 1..MaxForecast, k \in 1..MaxForecast}

RichReplies ==
    {HttpReply(200, JsonText(Obj([status |-> Str("success")] @@ l @@ [forecast |-> Arr(q)]))) :
        l \in Optional("location", {BackendLocation}), q \in RichForecasts}

NormalizeRequest ==
    JsonText(Obj([city |-> Str("Manila"), target_date |-> Str("2025-06-01"),
                  target_hour |-> Str("all")]))

NextNormalize ==
    \/ POST_Receive(NormalizeRequest)
    \/ \E i \in Pending : \E reply \in RichReplies : BackendResponds(i, reply)
    \/ POST_Resume
    \/ Deliver

SpecNormalize == Init /\ [][NextNormalize]_vars

----------------------------------------------------------------------------
(* The risk cards on their own: the component rendered with one data prop   *)
(* after another                                                            *)

\* severities of an assessment category, in thousandths
SeverityValues ==
    {0 - 500, 0, 1, 299, 300, 301, 500, 699, 700, 701, 1000, 1500}

\* chance_of_rain percentages, in thousandths
ChanceValues ==
    {0 - 5000, 0, 29999, 30000, 30001, 45000, 59999, 60000, 79999, 80000,
     80001, 100000, 150000}

\* the data props: normalised forecasts, whole or with parts missing
CardData ==
    {JNull, Undefined}
    \cup {Obj(a @@ p) :
            a \in Optional("assessment",
                    {Obj(w @@ o) :
                        w \in Optional("wind",
                                {Obj([category |-> Str("Breezy"), severity |-> Num(sv)]) :
                                    sv \in SeverityValues}),
                        o \in Optional("overall_risk", {Num(400), Num(700)})}),
            p \in Optional("predictions",
                    {Obj(c) : c \in Optional("chance_of_rain",
                                        {Num(x) : x \in ChanceValues})})}

\* the component is rendered with data
RenderCards(data) ==
    /\ cards' = WeatherRiskCards(data)
    /\ UNCHANGED <<pc, handler, request, calls, clock, responses, escaped, auto, dash>>

NextCards == \E data \in CardData : RenderCards(data)

SpecCards == Init /\ [][NextCards]_vars

----------------------------------------------------------------------------
(* The browser client as a state machine: the autocomplete and the dashboard
   it is mounted in *)

ServerVars == <<pc, handler, request, calls, clock, responses, escaped, cards>>

TypedQueries == {"", "m", "ma", "ce"}

\* how a request for suggestions can settle
SuggestionOutcomes(query) ==
    {Replied(HttpReply(200, JsonText(Arr(Geocode(query))))),
     Replied(HttpReply(200, JsonText(Arr(<<>>)))),
     Replied(HttpReply(500, JsonText(ErrorBody(Str("Failed to fetch location"))))),
     Rejected(FailedToFetch)}

Dates == {Day(2025, 6, 1), Day(2025, 11, 30)}

Times == {"all", "13"}

ForecastLocation == Obj([latitude |-> Num(14599), longitude |-> Num(120984)])

\* how a weather search can settle
SearchOutcomes ==
    {Replied(HttpReply(200, JsonText(Obj([location |-> ForecastLocation,
                                          predictions |-> Obj([temperature_c |-> Num(27000)])])))),
     Replied(HttpReply(200, JsonText(Obj([location |-> ForecastLocation,
                                          forecasts |-> Arr(<<Obj([hour |-> Num(0)])>>)])))),
     Replied(HttpReply(200, JsonText(Obj([forecast |->
                Arr(<<Obj([predicted_temp_c |-> Num(300150)]), Obj(EmptyFields)>>)])))),
     Replied(HttpReply(200, JsonText(ErrorBody(Str("No forecast available"))))),
     Replied(HttpReply(400, JsonText(ErrorBody(Str(
                "Missing required parameters: lat, lon, and city"))))),
     Replied(HttpReply(500, JsonText(Obj(EmptyFields)))),
     Replied(HttpReply(502, Unparsable("<html>"))),
     Rejected(FailedToFetch)}

\* the search settles without a forecast
Fails(search, outcome) == handleSearch_AfterFetch(search, outcome).threw

\* the popover is opened by a click on the trigger, closed by a click outside
TogglePopover ==
    /\ auto' = [auto EXCEPT !.open = ~@]
    /\ UNCHANGED <<dash, ServerVars>>

\* the user edits the text of the search box
Type(query) ==
    /\ auto.open
    /\ query # auto.searchQuery
    /\ auto' = SetSearchQuery(auto, query)
    /\ UNCHANGED <<dash, ServerVars>>

\* the debounce timer expires
DebounceFires ==
    /\ auto.debounceTimeout # <<>>
    /\ Len(auto.debounceTimeout[1]) >= 2 => Len(auto.requests) < MaxQueries
    /\ auto' = fetchSuggestions_Start([auto EXCEPT !.debounceTimeout = <<>>],
                                      auto.debounceTimeout[1])
    /\ UNCHANGED <<dash, ServerVars>>

\* request i for suggestions settles
SuggestionsSettle(i, outcome) ==
    /\ auto.requests[i].state = "pending"
    /\ auto' = fetchSuggestions_Finish(auto, i, outcome)
    /\ UNCHANGED <<dash, ServerVars>>

\* the user picks suggestion k
Select(k) ==
    /\ auto.open
    /\ auto' = handleSelect(auto)
    /\ dash' = [dash EXCEPT !.selectedLocation = auto.suggestions[k]]
    /\ UNCHANGED ServerVars

\* the user clicks the X shown next to the selected location
Clear ==
    /\ Truthy(dash.selectedLocation)
    /\ auto' = handleClear(auto)
    /\ dash' = [dash EXCEPT !.selectedLocation = JNull]
    /\ UNCHANGED ServerVars

\* the user clicks a day of the calendar: another day selects it, the
\* selected day deselects it
SetDate(date) ==
    /\ date # dash.date
    /\ dash' = [dash EXCEPT !.date = date]
    /\ UNCHANGED <<auto, ServerVars>>

SetTime(time) ==
    /\ time # dash.time
    /\ dash' = [dash EXCEPT !.time = time]
    /\ UNCHANGED <<auto, ServerVars>>

\* the search button, were it left enabled while loading
ClickSearchWhileLoading ==
    /\ ~(~Truthy(dash.selectedLocation) \/ ~Truthy(dash.date))
    /\ dash' = handleSearch_Start(dash)
    /\ UNCHANGED <<auto, ServerVars>>

\* the search button, disabled without a location or a date and while loading
ClickSearch ==
    /\ ~(~Truthy(dash.selectedLocation) \/ ~Truthy(dash.date) \/ dash.loading)
    /\ dash' = handleSearch_Start(dash)
    /\ UNCHANGED <<auto, ServerVars>>

\* search i settles
SearchSettles(i, outcome) ==
    /\ Fails(dash.searches[i], outcome) => Len(dash.alerts) < MaxAlerts
    /\ dash' = handleSearch_Finish(dash, i, outcome)
    /\ UNCHANGED <<auto, ServerVars>>

\* the export button, rendered with the results
ClickExport ==
    /\ Truthy(dash.weatherData)
    /\ Len(dash.downloads) < MaxDownloads
    /\ dash' = handleExport(dash)
    /\ UNCHANGED <<auto, ServerVars>>

NextAutocomplete ==
    \/ TogglePopover
    \/ \E query \in TypedQueries : Type(query)
    \/ DebounceFires
    \/ \E i \in DOMAIN auto.requests :
            \E outcome \in SuggestionOutcomes(auto.requests[i].query) :
                SuggestionsSettle(i, outcome)
    \/ \E k \in DOMAIN auto.suggestions : Select(k)
    \/ Clear

SpecAutocomplete == Init /\ [][NextAutocomplete]_vars

\* the autocomplete after the user has opened it and typed "ma", and the
\* suggestions for it have arrived
AutoResolved ==
    LET mounted == fetchSuggestions_Start([AutoInit EXCEPT !.debounceTimeout = <<>>], "")
        typed == SetSearchQuery([mounted EXCEPT !.open = TRUE], "ma")
        issued == fetchSuggestions_Start([typed EXCEPT !.debounceTimeout = <<>>], "ma")
    IN  fetchSuggestions_Finish(issued, 1,
            Replied(HttpReply(200, JsonText(Arr(Geocode("ma"))))))

InitDashboard ==
    /\ pc = "idle"
    /\ handler = "none"
    /\ request = JNull
    /\ calls = <<>>
    /\ clock = 0
    /\ responses = <<>>
    /\ escaped = FALSE
    /\ cards = NoCards
    /\ auto = AutoResolved
    /\ dash = DashInit

\* the search flow of the dashboard
NextSearch ==
    \/ \E k \in DOMAIN auto.suggestions : Select(k)
    \/ Clear
    \/ \E date \in Dates \cup {Undefined} : SetDate(date)
    \/ \E time \in Times : SetTime(time)
    \/ ClickSearch
    \/ \E i \in DOMAIN dash.searches :
            \E outcome \in SearchOutcomes : SearchSettles(i, outcome)

SpecSearch == InitDashboard /\ [][NextSearch]_vars

\* the dashboard with its export
NextDashboard ==
    \/ NextSearch
    \/ ClickExport

SpecDashboard == InitDashboard /\ [][NextDashboard]_vars

----------------------------------------------------------------------------
(* Properties *)

\* the string s starts with prefix
StartsWith(s, prefix) == Len(s) >= Len(prefix) /\ SubSeq(s, 1, Len(prefix)) = prefix

\* the handler has returned its response
Answered == pc = "done" /\ Len(responses) = 1

\* the response body is {error: <string>} and nothing else
ErrorOnly(body) == body.t = "obj" /\ DOMAIN body.v = {"error"} /\ body.v.error.t = "str"

\* the body of the POST request in progress is a JSON object
PostObject == handler = "POST" /\ request.parses /\ request.value.t = "obj"

\* the request in progress is the body the client sends: lat, lon and
\* target_date, no city
ClientBody ==
    /\ PostObject
    /\ Get(request.value, "city") = Undefined
    /\ Get(request.value, "lat").t = "num"
    /\ Get(request.value, "lon").t = "num"
    /\ Truthy(Get(request.value, "target_date"))

\* C1: a POST body with lat, lon and target_date and no city is not rejected
\* with a missing-parameter 400, and an outbound call to the backend follows.
C1_CoordinatesAccepted ==
    (pc # "idle" /\ ClientBody) =>
        /\ Len(calls) = 1 /\ calls[1].to = "backend"
        /\ ~(Answered /\ responses[1].status = 400)

\* the request in progress is a weather request that omits target_date
TargetDateOmitted ==
    \/ PostObject /\ Get(request.value, "target_date") = Undefined
    \/ handler = "WeatherGET" /\ SearchParam(request, "target_date") = JNull

\* C2: a weather request that omits target_date is answered 400 with an error
\* starting "Missing required parameters", and no outbound call is made.
C2_MissingTargetDate ==
    (pc # "idle" /\ TargetDateOmitted) =>
        /\ Answered
        /\ responses[1].status = 400
        /\ ErrorOnly(responses[1].body)
        /\ StartsWith(responses[1].body.v.error.v, "Missing required parameters")
        /\ calls = <<>>

\* C2 happens: a POST body with city, lat and lon but no target_date was rejected
C2_Witness ==
    /\ Answered /\ PostObject
    /\ Get(request.value, "target_date") = Undefined
    /\ Truthy(Get(request.value, "city"))
    /\ Get(request.value, "lat").t = "num"
    /\ responses[1].status = 400

\* the request went out to the prediction backend, which has not answered:
\* every fetch is still pending or was aborted by its timer
BackendSilent ==
    /\ pc # "idle" /\ Len(calls) > 0
    /\ \A i \in 1..Len(calls) :
        /\ calls[i].to # "nominatim"
        /\ \/ calls[i].state = "pending"
           \/ calls[i].state = "rejected" /\ calls[i].error \in AbortRejections

\* C3: when the backend has not answered within the 30-second bound, the
\* request is not left pending and is answered 504 "Request timeout...".
C3_TimeoutAnswered504 ==
    (BackendSilent /\ clock >= TimeoutSec) =>
        /\ clock > TimeoutSec => pc = "done"
        /\ pc = "done" =>
            /\ Answered
            /\ responses[1].status = 504
            /\ ErrorOnly(responses[1].body)
            /\ StartsWith(responses[1].body.v.error.v, "Request timeout")

\* the status field of the payload the backend replied with to POST
RepliedStatus ==
    IF /\ handler = "POST" /\ pc = "done" /\ Len(calls) = 1
       /\ calls[1].state = "fulfilled" /\ calls[1].reply.text.parses
        THEN Get(calls[1].reply.text.value, "status")
        ELSE Undefined

\* C4: a backend payload with status "loading" is answered 503 and one with
\* status "error" 500, with a body of {error} only.
C4_LoadingAndErrorStatus ==
    /\ RepliedStatus = Str("loading") =>
            Answered /\ responses[1].status = 503 /\ ErrorOnly(responses[1].body)
    /\ RepliedStatus = Str("error") =>
            Answered /\ responses[1].status = 500 /\ ErrorOnly(responses[1].body)

WeatherHandlers == {"POST", "WeatherGET", "LegacyGET", "HourlyGET", "CoordGET"}

\* C5: every failure response of the weather gateway is {error: string} with
\* status 400, 503, 500 or 504.
C5_FailureShape ==
    (Answered /\ handler \in WeatherHandlers /\ responses[1].status \notin 200..299) =>
        /\ ErrorOnly(responses[1].body)
        /\ responses[1].status \in {400, 503, 500, 504}

\* the outbound call, or reading or parsing its payload, has failed
OutboundFailure ==
    /\ pc = "done" /\ Len(calls) > 0
    /\ IF handler = "HourlyGET"
            THEN \E i \in 1..Len(calls) :
                    \/ calls[i].state = "rejected"
                    \/ calls[i].state = "fulfilled" /\ ~calls[i].reply.text.parses
            ELSE \/ calls[1].state = "rejected"
                 \/ calls[1].state = "fulfilled" /\ ~calls[1].reply.text.parses

\* C6: every handled request ends with exactly one JSON response and no
\* exception escapes; a failure of the outbound call or of reading the payload
\* gives an {error} response with an error status.
C6_ErrorsCaught ==
    /\ ~escaped
    /\ Len(responses) <= 1
    /\ pc = "done" => Answered /\ responses[1].status \in 200..599
    /\ OutboundFailure =>
        /\ responses[1].status \in 400..599
        /\ responses[1].body.t = "obj"
        /\ "error" \in DOMAIN responses[1].body.v
        /\ responses[1].body.v.error.t = "str"

\* C6 happens: the backend's body did not parse and POST answered 500
C6_Witness ==
    /\ Answered /\ handler = "POST" /\ Len(calls) = 1
    /\ calls[1].state = "fulfilled" /\ Ok(calls[1].reply) /\ ~calls[1].reply.text.parses
    /\ responses[1].status = 500
    /\ ~escaped

\* POST has answered a backend reply of HTTP 2xx whose payload has status
\* "success" and a forecast array
Normalizing ==
    /\ handler = "POST" /\ Answered /\ Len(calls) = 1
    /\ calls[1].state = "fulfilled" /\ Ok(calls[1].reply)
    /\ calls[1].reply.text.parses
    /\ Get(calls[1].reply.text.value, "status") = Str("success")
    /\ Get(calls[1].reply.text.value, "forecast").t = "arr"

\* the forecast array of the payload, when Normalizing
Forecast == Get(calls[1].reply.text.value, "forecast").v

\* every entry of the forecast array is an object
ObjectEntries == \A i \in 1..Len(Forecast) : Forecast[i].t = "obj"

\* the forecasts of the response, when it is a 200: the body itself for a
\* single forecast, the forecasts array for a series
OutEntries ==
    IF Len(Forecast) = 1 THEN <<responses[1].body>>
                         ELSE Get(responses[1].body, "forecasts").v

\* the output entry carries the datetime, wind, humidity and assessment of
\* the backend entry fc (defaults where fc has none)
BuiltFrom(out, fc) ==
    /\ Get(out, "datetime") = Get(fc, "datetime")
    /\ Get(out, "predictions").t = "obj"
    /\ Get(Get(out, "predictions"), "humidity_percent")
            = (IF Truthy(Get(fc, "predicted_humidity"))
                  THEN Get(fc, "predicted_humidity") ELSE Num(0))
    /\ Get(Get(out, "predictions"), "wind_speed_ms")
            = (IF Truthy(Get(fc, "predicted_wind_speed"))
                  THEN Get(fc, "predicted_wind_speed") ELSE Num(0))
    /\ Get(out, "assessment").t = "obj"
    /\ Truthy(Get(fc, "assessment")) => Get(out, "assessment") = Get(fc, "assessment")

\* C7: one backend entry gives a single forecast object without a forecasts
\* array; n >= 2 entries give {location, forecasts} with n entries, the i-th
\* built from the i-th backend entry.
C7_AritySwitch ==
    (Normalizing /\ ObjectEntries /\ Len(Forecast) >= 1) =>
        /\ responses[1].status = 200
        /\ responses[1].body.t = "obj"
        /\ Len(Forecast) = 1 =>
            /\ "forecasts" \notin DOMAIN responses[1].body.v
            /\ BuiltFrom(responses[1].body, Forecast[1])
        /\ Len(Forecast) >= 2 =>
            /\ "forecasts" \in DOMAIN responses[1].body.v
            /\ DOMAIN responses[1].body.v \subseteq {"location", "forecasts"}
            /\ responses[1].body.v.forecasts.t = "arr"
            /\ Len(OutEntries) = Len(Forecast)
            /\ \A i \in 1..Len(Forecast) : BuiltFrom(OutEntries[i], Forecast[i])

\* C7 happens: a series of at least two different entries was returned
C7_Witness ==
    /\ Normalizing /\ ObjectEntries /\ Len(Forecast) >= 2
    /\ Forecast[1] # Forecast[2]
    /\ responses[1].status = 200
    /\ Len(OutEntries) = Len(Forecast)

\* C8: in both branches temperature_c is predicted_temp_c - 273.15 when
\* predicted_temp_c > 100 and predicted_temp_c unchanged otherwise.
C8_KelvinHeuristic ==
    (Normalizing /\ ObjectEntries /\ responses[1].status = 200) =>
        \A i \in 1..Len(Forecast) :
            LET t == Get(Forecast[i], "predicted_temp_c")
            IN  t.t = "num" =>
                    Get(Get(OutEntries[i], "predictions"), "temperature_c")
                        = Num(IF t.v > 100 * Milli THEN t.v - 273150 ELSE t.v)

RainPriority ==
    <<"predicted_chance_of_rain", "predicted_precip_chance",
      "predicted_precip_probability", "predicted_precip_prob", "predicted_precip_mm">>

\* positions in RainPriority of the rain fields the entry carries
PresentRain(fc) == {j \in 1..Len(RainPriority) : RainPriority[j] \in DOMAIN fc.v}

\* position of the first rain field the entry carries
FirstRain(fc) == CHOOSE j \in PresentRain(fc) : \A k \in PresentRain(fc) : j <= k

\* the integer nearest to the fixed-point number x (halves go up)
Nearest(x) == CHOOSE r \in -100..200 : r * Milli - 500 <= x /\ x < r * Milli + 500

\* round(v * 100) for v <= 1, round(v) for v > 1, as a percentage
Percent(v) == IF v <= Milli THEN Nearest(v * 100) ELSE Nearest(v)

\* the band of the precipitation fallback, as a percentage
MmBand(mm) ==
    IF mm <= 0 THEN 0
    ELSE IF mm < 1000 THEN 20
    ELSE IF mm < 5000 THEN 50
    ELSE IF mm < 15000 THEN 80
    ELSE 95

\* the percentage the first rain field of the entry stands for
ExpectedChance(fc) ==
    IF PresentRain(fc) = {} THEN 0
    ELSE LET j == FirstRain(fc)
             x == fc.v[RainPriority[j]]
         IN  IF x.t # "num" THEN 0
             ELSE IF j = Len(RainPriority) THEN Percent(MmBand(x.v) * Milli)
             ELSE Percent(x.v)

\* C9: the rain signal is the first field present in the priority order, the
\* precipitation fallback coming last, and chance_of_rain is 0 with none.
C9_RainPriority ==
    (Normalizing /\ ObjectEntries /\ Len(Forecast) >= 1) =>
        /\ responses[1].status = 200
        /\ \A i \in 1..Len(Forecast) :
            Get(Get(OutEntries[i], "predictions"), "chance_of_rain")
                = Num(ExpectedChance(Forecast[i]) * Milli)

\* C9 happens: an entry of a series carries precip_chance, a lower-priority
\* field with another value and no chance_of_rain, and precip_chance was used
C9_Witness ==
    /\ Normalizing /\ ObjectEntries /\ Len(Forecast) >= 2
    /\ responses[1].status = 200
    /\ \E i \in 1..Len(Forecast) :
        /\ PresentRain(Forecast[i]) = {2, 4, 5}
        /\ Forecast[i].v.predicted_precip_chance = Num(45000)
        /\ Forecast[i].v.predicted_precip_prob = Num(80500)
        /\ Get(Get(OutEntries[i], "predictions"), "chance_of_rain") = Num(45000)

\* the explicit chance or probability the entry resolves to, if it is a number
ExplicitSignal(fc) ==
    IF PresentRain(fc) # {} /\ FirstRain(fc) < Len(RainPriority)
        THEN fc.v[RainPriority[FirstRain(fc)]]
        ELSE Undefined

\* C10: a resolved rain value v becomes round(v * 100) when v <= 1 and
\* round(v) when v > 1, in the single-entry and in the series branch alike.
C10_ProbabilityToPercent ==
    (Normalizing /\ ObjectEntries /\ responses[1].status = 200) =>
        \A i \in 1..Len(Forecast) :
            LET x == ExplicitSignal(Forecast[i])
                out == Get(Get(OutEntries[i], "predictions"), "chance_of_rain")
            IN  x.t = "num" =>
                    /\ x.v <= Milli => out = Num(Nearest(x.v * 100) * Milli)
                    /\ x.v > Milli => out = Num(Nearest(x.v) * Milli)

\* C10 happens: in a series, the boundary value 1 became 100
C10_Witness ==
    /\ Normalizing /\ ObjectEntries /\ responses[1].status = 200
    /\ Len(Forecast) >= 2
    /\ \E i \in 1..Len(Forecast) :
        /\ ExplicitSignal(Forecast[i]) = Num(1000)
        /\ Get(Get(OutEntries[i], "predictions"), "chance_of_rain") = Num(100000)

\* C11: with no explicit chance or probability field, predicted_precip_mm
\* gives chance_of_rain 0 for mm <= 0, 20 below 1, 50 below 5, 80 below 15
\* and 95 from 15 on; with an explicit field present the mm mapping is not
\* applied and the explicit field decides.
C11_MmFallback ==
    (Normalizing /\ ObjectEntries /\ responses[1].status = 200) =>
        \A i \in 1..Len(Forecast) :
            LET fc == Forecast[i]
                mm == Get(fc, "predicted_precip_mm")
                x == ExplicitSignal(fc)
                out == Get(Get(OutEntries[i], "predictions"), "chance_of_rain")
            IN  /\ (PresentRain(fc) = {5} /\ mm.t = "num") =>
                        out = Num(MmBand(mm.v) * Milli)
                /\ (5 \in PresentRain(fc) /\ PresentRain(fc) # {5}) =>
                        out = (IF x.t = "num" THEN Num(Percent(x.v) * Milli) ELSE Num(0))

\* C11 happens: an entry with predicted_precip_mm = 5 and no explicit field
\* became 80
C11_Witness ==
    /\ Normalizing /\ ObjectEntries /\ responses[1].status = 200
    /\ Len(Forecast) >= 1
    /\ PresentRain(Forecast[1]) = {5}
    /\ Get(Forecast[1], "predicted_precip_mm") = Num(5000)
    /\ Get(Get(OutEntries[1], "predictions"), "chance_of_rain") = Num(80000)

\* C12: wind_speed_ms is the scalar predicted_wind_speed when the entry
\* carries it, else sqrt(u^2 + v^2) of predicted_wind_u and predicted_wind_v
\* when it carries those, and 0 when it carries neither.
C12_WindSpeed ==
    (Normalizing /\ ObjectEntries /\ responses[1].status = 200) =>
        \A i \in 1..Len(Forecast) :
            LET w == Get(Forecast[i], "predicted_wind_speed")
                u == Get(Forecast[i], "predicted_wind_u")
                v == Get(Forecast[i], "predicted_wind_v")
                out == Get(Get(OutEntries[i], "predictions"), "wind_speed_ms")
            IN  /\ w.t = "num" => out = w
                /\ (w = Undefined /\ u.t = "num" /\ v.t = "num") =>
                        /\ out.t = "num" /\ out.v >= 0
                        /\ out.v * out.v = u.v * u.v + v.v * v.v
                /\ (w = Undefined /\ u = Undefined /\ v = Undefined) => out = Num(0)

\* a category of the synthesised assessment, as the claim states it
NoDataCategory ==
    [t |-> "obj",
     v |-> [category |-> [t |-> "str", v |-> "Unknown"],
            severity |-> [t |-> "num", v |-> 0],
            safe |-> [t |-> "bool", v |-> TRUE]]]

\* the synthesised assessment, as the claim states it
NoDataAssessment ==
    [t |-> "obj",
     v |-> [wind |-> NoDataCategory, precipitation |-> NoDataCategory,
            temperature |-> NoDataCategory, humidity |-> NoDataCategory,
            overall_risk |-> [t |-> "num", v |-> 0],
            safe_for_outdoors |-> [t |-> "bool", v |-> TRUE],
            recommendation |-> [t |-> "str", v |-> "No data available"]]]

\* C13: an entry's structured assessment is output unchanged; an entry
\* without one gets the assessment with four "Unknown" categories of
\* severity 0 and safe, overall_risk 0, safe_for_outdoors and the
\* recommendation "No data available".
C13_AssessmentPassthrough ==
    (Normalizing /\ ObjectEntries /\ responses[1].status = 200) =>
        \A i \in 1..Len(Forecast) :
            LET given == Get(Forecast[i], "assessment")
                out == Get(OutEntries[i], "assessment")
            IN  /\ given.t = "obj" => out = given
                /\ given = Undefined => out = NoDataAssessment

\* C13 happens: in one series an entry's assessment was passed through and
\* an entry without one got the synthesised assessment
C13_Witness ==
    /\ Normalizing /\ ObjectEntries /\ responses[1].status = 200
    /\ Len(Forecast) >= 2
    /\ \E i, j \in 1..Len(Forecast) :
        /\ Get(Forecast[i], "assessment").t = "obj"
        /\ Get(Forecast[i], "assessment") # NoDataAssessment
        /\ Get(OutEntries[i], "assessment") = Get(Forecast[i], "assessment")
        /\ Get(Forecast[j], "assessment") = Undefined
        /\ Get(OutEntries[j], "assessment") = NoDataAssessment

\* the forecast e has its four predictions and its assessment
CanonicalForecast(e) ==
    /\ e.t = "obj"
    /\ "assessment" \in DOMAIN e.v
    /\ Get(e, "predictions").t = "obj"
    /\ {"wind_speed_ms", "chance_of_rain", "temperature_c", "humidity_percent"}
            \subseteq DOMAIN Get(e, "predictions").v

\* C14: every HTTP 200 response of POST is a canonical record: each forecast
\* in it has wind_speed_ms, chance_of_rain, temperature_c, humidity_percent
\* and assessment.
C14_CanonicalRecord ==
    (handler = "POST" /\ Answered /\ responses[1].status = 200) =>
        LET body == responses[1].body
        IN  /\ body.t = "obj"
            /\ IF Get(body, "forecasts") # Undefined
                  THEN /\ Get(body, "forecasts").t = "arr"
                       /\ \A i \in 1..Len(Get(body, "forecasts").v) :
                            CanonicalForecast(Get(body, "forecasts").v[i])
                  ELSE CanonicalForecast(body)

\* C15: in every normalised forecast wind_speed_ms >= 0, chance_of_rain >= 0
\* and 0 <= humidity_percent <= 100, whatever the backend payload holds.
C15_PredictionRanges ==
    (Normalizing /\ ObjectEntries /\ responses[1].status = 200) =>
        \A i \in 1..Len(Forecast) :
            LET p == Get(OutEntries[i], "predictions")
            IN  /\ Get(p, "wind_speed_ms").t = "num" /\ Get(p, "wind_speed_ms").v >= 0
                /\ Get(p, "chance_of_rain").t = "num" /\ Get(p, "chance_of_rain").v >= 0
                /\ Get(p, "humidity_percent").t = "num"
                /\ Get(p, "humidity_percent").v >= 0
                /\ Get(p, "humidity_percent").v <= 100 * Milli

\* the cards are rendered from a forecast
CardsShown == cards.shown /\ "rain" \in DOMAIN cards

\* the severity the wind badge was given
WindSeverity(c) ==
    LET sv == Get(Get(Get(c.data, "assessment"), "wind"), "severity")
    IN  IF sv.t = "num" THEN sv.v ELSE 0

\* the label of severity sv, as the claim states it
SeverityLabel(sv) ==
    IF sv < 300 THEN "Low Risk"
    ELSE IF sv < 700 THEN "Medium Risk"
    ELSE "High Risk"

\* rank of a label in increasing risk
LabelRank(label) ==
    CASE label = "Low Risk" -> 1 [] label = "Medium Risk" -> 2 [] label = "High Risk" -> 3

\* C16: a severity s is labelled "Low Risk" when s < 0.3, "Medium Risk" when
\* 0.3 <= s < 0.7 and "High Risk" when s >= 0.7, outside [0, 1] included;
\* from one rendering to the next the label does not decrease when s does not.
C16_SeverityBands ==
    /\ [](CardsShown =>
            /\ cards.wind.badge.label = SeverityLabel(WindSeverity(cards))
            /\ cards.rain.badge.label = SeverityLabel(cards.rain.severity.v))
    /\ [][(CardsShown /\ CardsShown' /\ WindSeverity(cards) <= WindSeverity(cards')) =>
                LabelRank(cards.wind.badge.label) <= LabelRank(cards'.wind.badge.label)]_vars

\* C16 happens: the wind severity 0.7 got the badge "High Risk"
C16_Witness ==
    /\ CardsShown
    /\ WindSeverity(cards) = 700
    /\ cards.wind.badge.label = "High Risk"

\* C17: a rain percentage p gives ("Low Chance", 0.0) when p < 30,
\* ("Possible", 0.3) when 30 <= p < 60, ("Likely", 0.6) when 60 <= p < 80 and
\* ("Very Likely", 0.9) when p >= 80.
C17_RainBands ==
    CardsShown =>
        LET pct == cards.rain.chance.v
            shown == <<cards.rain.category, cards.rain.severity.v>>
        IN  /\ pct < 30000 => shown = <<"Low Chance", 0>>
            /\ (30000 <= pct /\ pct < 60000) => shown = <<"Possible", 300>>
            /\ (60000 <= pct /\ pct < 80000) => shown = <<"Likely", 600>>
            /\ pct >= 80000 => shown = <<"Very Likely", 900>>

\* C17 happens: the percentage 60 was shown as "Likely" with severity 0.6
C17_Witness ==
    /\ CardsShown
    /\ Get(Get(cards.data, "predictions"), "chance_of_rain") = Num(60000)
    /\ cards.rain.category = "Likely"
    /\ cards.rain.severity = Num(600)

\* the request in progress, to one of the handlers that take lat and lon as
\* query parameters next to nothing else missing, carries both coordinates
CarriesCoordinates ==
    /\ pc # "idle"
    /\ \/ handler = "CoordGET"
       \/ handler = "WeatherGET" /\ Truthy(SearchParam(request, "target_date"))
    /\ Truthy(SearchParam(request, "lat"))
    /\ Truthy(SearchParam(request, "lon"))

\* lat or lon is not a number, or is outside [-90, 90] or [-180, 180]
BadCoordinates ==
    LET latitude == ParseFloat(SearchParam(request, "lat").v)
        longitude == ParseFloat(SearchParam(request, "lon").v)
    IN  \/ latitude.t # "num" \/ longitude.t # "num"
        \/ latitude.v < 0 - 90000 \/ latitude.v > 90000
        \/ longitude.v < 0 - 180000 \/ longitude.v > 180000

\* C18: a request with a lat or lon that is not a number or is out of range
\* is rejected 400 with an invalid-coordinate error and no outbound call;
\* coordinates in range, the boundaries included, are accepted.
C18_CoordinateValidation ==
    CarriesCoordinates =>
        IF BadCoordinates
            THEN /\ Answered
                 /\ responses[1].status = 400
                 /\ ErrorOnly(responses[1].body)
                 /\ StartsWith(responses[1].body.v.error.v, "Invalid")
                 /\ calls = <<>>
            ELSE Len(calls) = 1

\* the target_hour of the inbound request in progress
InboundHour ==
    IF handler = "POST" THEN Get(request.value, "target_hour")
                        ELSE SearchParam(request, "target_hour")

\* the inbound request supplies a target_hour: a string that is not empty
HourSupplied == InboundHour.t = "str" /\ InboundHour.v # ""

\* C19: the target_hour sent to the backend is the inbound target_hour when
\* the request supplies one, and "all" only when it supplies none.
C19_TargetHourForwarded ==
    (pc # "idle" /\ handler \in {"POST", "WeatherGET"} /\ Len(calls) = 1) =>
        LET sent == calls[1].params.target_hour
        IN  /\ HourSupplied => sent = InboundHour.v
            /\ ~HourSupplied => sent = "all"
            /\ sent = "all" => (~HourSupplied \/ InboundHour.v = "all")

\* C19 happens: hour 0 came in and hour 0 went out to the backend
C19_Witness ==
    /\ pc = "awaiting" /\ handler = "WeatherGET" /\ Len(calls) = 1
    /\ InboundHour = Str("0")
    /\ calls[1].params.target_hour = "0"

\* the inbound request in progress fails the validation of its handler
RejectedByValidation ==
    /\ pc # "idle"
    /\ \/ /\ PostObject
          /\ \/ ~Truthy(Get(request.value, "city"))
             \/ ~Truthy(Get(request.value, "target_date"))
       \/ /\ handler \in {"WeatherGET", "LegacyGET", "HourlyGET", "CoordGET"}
          /\ \/ ~Truthy(SearchParam(request, "lat"))
             \/ ~Truthy(SearchParam(request, "lon"))
       \/ handler = "WeatherGET" /\ ~Truthy(SearchParam(request, "target_date"))
       \/ /\ handler = "CoordGET"
          /\ Truthy(SearchParam(request, "lat")) /\ Truthy(SearchParam(request, "lon"))
          /\ BadCoordinates

\* the request in progress is the hourly GET asking for the whole day
WholeDay == handler = "HourlyGET" /\ SearchParam(request, "time") = Str("all")

\* C20: each inbound request causes at most one outbound request to the
\* prediction backend, and none when validation rejects it.
C20_AtMostOneOutbound ==
    /\ Len(calls) <= 1
    /\ RejectedByValidation => calls = <<>>

\* C20 as amended: at most one outbound request per inbound request, except
\* the hourly GET with time=all, which issues one batch of one request per
\* hour; the requests issued are never added to or changed afterwards (no
\* second attempt), and none is issued when validation rejects the request.
C20_OneOutboundOrHourlyBatch ==
    /\ [](/\ Len(calls) <= (IF WholeDay THEN FanOut ELSE 1)
          /\ RejectedByValidation => calls = <<>>)
    /\ [][(pc # "idle" /\ pc' # "idle") =>
            /\ Len(calls') = Len(calls)
            /\ \A i \in 1..Len(calls) :
                    calls'[i].to = calls[i].to /\ calls'[i].params = calls[i].params]_vars

\* C20 happens: the whole-day batch went out, one of its requests failed and
\* the request was answered without another attempt
C20_Witness ==
    /\ pc = "done" /\ WholeDay
    /\ Len(calls) = FanOut
    /\ \E i \in 1..Len(calls) : calls[i].state = "rejected"
    /\ Answered /\ responses[1].status = 500

\* the hourly request i of the batch has failed: its fetch was rejected, or
\* the backend's reply is not a 2xx or does not parse
HourFailed(i) ==
    \/ calls[i].state = "rejected"
    \/ /\ calls[i].state = "fulfilled"
       /\ ~Ok(calls[i].reply) \/ ~calls[i].reply.text.parses

\* C21: with time=all one request per hour goes out, hours 0 up; a 200
\* response is assembled after all have completed, element i being the result
\* of hour i; if any hourly request fails the answer is an {error} response.
C21_HourlyFanOut ==
    (WholeDay /\ pc # "idle" /\ ~RejectedByValidation) =>
        /\ Len(calls) = FanOut
        /\ \A i \in 1..Len(calls) : calls[i].params.hour = ToString(i - 1)
        /\ (pc = "done" /\ \E i \in 1..Len(calls) : HourFailed(i)) =>
                /\ Answered
                /\ responses[1].status \notin 200..299
                /\ ErrorOnly(responses[1].body)
        /\ (Answered /\ responses[1].status = 200) =>
                /\ \A i \in 1..Len(calls) : calls[i].state = "fulfilled"
                /\ responses[1].body.t = "arr"
                /\ Len(responses[1].body.v) = Len(calls)
                /\ \A i \in 1..Len(calls) :
                        responses[1].body.v[i] = calls[i].reply.text.value

\* the backend's 2xx reply to POST is of unexpected shape: not JSON, a status
\* other than success, loading and error, or success without a forecast array
Malformed ==
    /\ handler = "POST" /\ pc = "done" /\ Len(calls) = 1
    /\ calls[1].state = "fulfilled" /\ Ok(calls[1].reply)
    /\ LET text == calls[1].reply.text
       IN  \/ ~text.parses
           \/ Get(text.value, "status") \notin {Str("success"), Str("loading"), Str("error")}
           \/ /\ Get(text.value, "status") = Str("success")
              /\ Get(text.value, "forecast").t # "arr"

\* C22: a backend reply of unexpected shape is answered with a failure
\* {error} response, never with an HTTP 200 body.
C22_MalformedReported ==
    Malformed =>
        /\ Answered
        /\ responses[1].status \notin 200..299
        /\ ErrorOnly(responses[1].body)

\* C30: a success payload with an empty forecast array is answered 200 with
\* the series shape, forecasts being an empty array.
C30_EmptyForecast ==
    (Normalizing /\ Len(Forecast) = 0) =>
        /\ responses[1].status = 200
        /\ responses[1].body.t = "obj"
        /\ DOMAIN responses[1].body.v \subseteq {"location", "forecasts"}
        /\ Get(responses[1].body, "forecasts") = [t |-> "arr", v |-> <<>>]
        /\ Get(responses[1].body, "location")
                = Get(calls[1].reply.text.value, "location")

\* C30 happens: an empty forecast array was answered with an empty series
C30_Witness ==
    /\ Normalizing /\ Len(Forecast) = 0
    /\ responses[1].status = 200
    /\ Get(responses[1].body, "forecasts").t = "arr"
    /\ Get(responses[1].body, "location") = BackendLocation

\* the suggestion requests still in flight
InFlight == {i \in DOMAIN auto.requests : auto.requests[i].state = "pending"}

\* the query of the request issued last
LatestQuery == auto.requests[Len(auto.requests)].query

\* the list a reply to query gives
SuggestionsFor(query) == [i \in DOMAIN Geocode(query) |-> ToLocation(Geocode(query)[i])]

\* the locations the geocoder can resolve
ResolvedLocations ==
    UNION {{SuggestionsFor(query)[i] : i \in DOMAIN SuggestionsFor(query)} :
                query \in TypedQueries}

\* a search outcome the client treats as a failure: a rejected fetch, a
\* non-OK reply, a body that does not parse or a body with an error field
FailedOutcome(outcome) ==
    \/ outcome.state = "rejected"
    \/ ~Ok(outcome.reply)
    \/ ~outcome.reply.text.parses
    \/ Truthy(Get(outcome.reply.text.value, "error"))

\* the text of the body's error field, when it has one
ErrorField(outcome) ==
    IF outcome.state = "replied" /\ outcome.reply.text.parses
        THEN Get(outcome.reply.text.value, "error")
    ELSE Undefined

\* export can run: a forecast is held and a location is selected
CanExport == Truthy(dash.weatherData) /\ Truthy(dash.selectedLocation)

\* C23: a failed search (non-OK reply, body with an error field, network or
\* parse failure) shows one alert, with the body's error text when there is
\* one, leaves weatherData as it was, resets loading and sends no request.
C23_FailedSearch ==
    [][\A i \in DOMAIN dash.searches : \A outcome \in SearchOutcomes :
        (FailedOutcome(outcome) /\ dash' = handleSearch_Finish(dash, i, outcome)) =>
            /\ Len(dash'.alerts) = Len(dash.alerts) + 1
            /\ Truthy(ErrorField(outcome)) =>
                    dash'.alerts[Len(dash'.alerts)] = ErrorField(outcome).v
            /\ dash'.weatherData = dash.weatherData
            /\ ~dash'.loading
            /\ Len(dash'.searches) < Len(dash.searches)]_vars

\* a search failed while a forecast was held
C23_Witness ==
    /\ Len(dash.alerts) = 1
    /\ Truthy(dash.weatherData)
    /\ ~dash.loading
    /\ dash.searches = <<>>

\* C24: export downloads the held weatherData, serialized, under the name
\* built from the selected location's name, the selected date as
\* yyyy-MM-dd and "all-day" or "<hour>h"; it changes nothing else, and
\* nothing at all without a forecast or without a location.
C24_Export ==
    [][dash' = handleExport(dash) =>
        IF CanExport
            THEN /\ dash.date.t = "date"
                 /\ dash' = [dash EXCEPT !.downloads = Append(@,
                        [download |->
                            "weather-insights-" \o dash.selectedLocation.v.name.v
                                \o "-" \o ToString(dash.date.year)
                                \o "-" \o TwoDigits(dash.date.month)
                                \o "-" \o TwoDigits(dash.date.day)
                                \o "-" \o (IF dash.time = "all" THEN "all-day"
                                            ELSE dash.time \o "h")
                                \o ".json",
                         content |-> JsonText(JsonStringify(dash.weatherData))])]
        ELSE dash' = dash]_vars

\* C25: a weather request is only ever sent for a location picked from the
\* geocoder's suggestions and for a picked date, and one search sends at
\* most one request.
C25_SearchAfterResolution ==
    /\ [](\A i \in DOMAIN dash.searches :
            /\ dash.searches[i].selectedLocation \in ResolvedLocations
            /\ Get(dash.searches[i].body, "lat") = Get(dash.searches[i].selectedLocation, "lat")
            /\ Get(dash.searches[i].body, "target_date")
                    \in {Str(FormatDate(date).value) : date \in Dates})
    /\ [][/\ Len(dash'.searches) <= Len(dash.searches) + 1
          /\ Len(dash'.searches) > Len(dash.searches) =>
                Truthy(dash.selectedLocation) /\ Truthy(dash.date)]_vars

\* a weather request is in flight
C25_Witness ==
    /\ Len(dash.searches) = 1
    /\ Get(dash.searches[1].body, "target_date") = Str("2025-06-01")

\* C26: the suggestions shown are those of the query issued last.
C26_LatestQueryShown ==
    auto.suggestions # <<>> =>
        auto.requests # <<>> /\ auto.suggestions = SuggestionsFor(LatestQuery)

\* C27: the autocomplete's loading flag is TRUE exactly when a suggestion
\* request is in flight.
C27_LoadingWhileInFlight == auto.loading <=> InFlight # {}

\* C28: the dashboard's loading flag is TRUE exactly when a weather request
\* is in flight, and at most one is in flight.
C28_LoadingWhileSearching ==
    /\ dash.loading <=> dash.searches # <<>>
    /\ Len(dash.searches) <= 1

\* a second search is in flight while the first one's forecast is held
C28_Witness ==
    /\ dash.loading
    /\ Len(dash.searches) = 1
    /\ Truthy(dash.weatherData)

\* C29: whenever export can run, the selected date is defined.
C29_DateDefinedForExport == CanExport => Truthy(dash.date)

====
